---------------------------- MODULE Spec2Model ----------------------------
(***************************************************************************)
(* A model of AsyncStepperMotor (src/AsyncStepperMotor.py): the command    *)
(* queue, the event loop thread that drains it and advances the stepper    *)
(* one increment per iteration, and the caller threads that enqueue        *)
(* commands and call wait().                                               *)
(*                                                                         *)
(* The loop thread is modelled statement group by statement group (loopPc) *)
(* so that every access to state shared with caller threads (the queue,    *)
(* the two Events, _lastSteadyStatePosition) is a step of its own.         *)
(***************************************************************************)
EXTENDS Integers, Sequences, FiniteSets, TLC

(***************************************************************************)
(* Bounds of the model.                                                    *)
(***************************************************************************)
\* Total number of commands the caller threads enqueue in one behaviour.
MaxCmds == 3
\* Largest position / step count used as a command argument.
MaxPos == 2
\* Position of the moveTo of the moveTo-then-wait scenario.
ScenarioPosition == 10

\* Labels used by mark() and goto().
Labels == {"opened", "closed"}

\* Arguments of moveBy() and moveTo(): one backward, one forward.
StepArgs == {-1, MaxPos}

\* The number of most recent observer invocations the history keeps.
MaxReports == 2

\* Time is counted in tenths of a second.
\* self._idlingReportInterval = 5.0 and self._motionReportInterval = 0.2
IdlingReportInterval == 50
MotionReportInterval == 2

\* The argument of idleUpdateInterval() and of motionUpdateInterval(): 1.0 s.
IntervalArg == 10

\* The time of the CountdownTimer on its own: 0 .. MaxClock.
MaxClock == 4

\* The periods it is given.
TimerPeriods == {0 - 1, 0, 1, 3}

\* The stepper numbers a controller is constructed with: -1 .. MaxStepperNo.
MaxStepperNo == 3

StepperNos == (0 - 1) .. MaxStepperNo

(***************************************************************************)
(* Values.                                                                 *)
(***************************************************************************)
\* stepper.FORWARD / stepper.BACKWARD and the stepping styles.
FORWARD == "FORWARD"
BACKWARD == "BACKWARD"
DOUBLE == "DOUBLE"
SINGLE == "SINGLE"
SteppingStyles == {SINGLE, DOUBLE}

\* A _MotorCommand: the operation its lambda calls and the arguments the
\* lambda closed over.
Cmd(op, n, label, flag) == [op |-> op, n |-> n, label |-> label, flag |-> flag]

MoveByCmd(steps) == Cmd("moveBy", steps, "", FALSE)
MoveToCmd(position) == Cmd("moveTo", position, "", FALSE)
HaltCmd == Cmd("halt", 0, "", FALSE)
MarkCmd(label) == Cmd("mark", 0, label, FALSE)
GotoCmd(label) == Cmd("goto", 0, label, FALSE)
ReverseMotionCmd(reversed) == Cmd("reverseMotion", 0, "", reversed)

MotionStepDelayCmd(delaySecs) == Cmd("motionStepDelay", delaySecs, "", FALSE)
IdleUpdateIntervalCmd(intervalSecs) == Cmd("idleUpdateInterval", intervalSecs, "", FALSE)
MotionUpdateIntervalCmd(intervalSecs) == Cmd("motionUpdateInterval", intervalSecs, "", FALSE)
SteppingStyleCmd(steppingStyle) == Cmd("steppingStyle", 0, steppingStyle, FALSE)

\* No command was taken from the queue in this iteration.
NoCmd == Cmd("none", 0, "", FALSE)

\* The commands the caller threads of the model issue.
Commands ==
    {MoveByCmd(n) : n \in StepArgs} \cup {MoveToCmd(p) : p \in StepArgs}
        \cup {HaltCmd}
        \cup {MarkCmd(l) : l \in Labels} \cup {GotoCmd(l) : l \in Labels}
        \cup {ReverseMotionCmd(TRUE)}

\* Calls made on the stepper motor (self._stepperMotor).
OneStep(direction, style) == [call |-> "onestep", direction |-> direction, style |-> style]
Release == [call |-> "release", direction |-> "", style |-> ""]

\* A call of the life cycle and its outcome: "returned" or "raised", or the
\* value returned, "True" or "False".
Outcome(call, outcome) == [call |-> call, outcome |-> outcome]

\* An invocation of the observer: its arguments and whether it raised.
Report(targetPosition, actualPosition, raised) ==
    [target |-> targetPosition, actual |-> actualPosition, raised |-> raised]

\* The observers that observe() registers: None (no observer), a callback
\* that returns, a callback that raises.
NoObserver == "None"
Callback == "callback"
RaisingCallback == "raising callback"

VARIABLES
    \* state owned by the loop thread
    motorPosition,            \* self._motorPosition
    targetMotorPosition,      \* self._targetMotorPosition
    prevMotorPosition,        \* self._prevMotorPosition
    prevTargetMotorPosition,  \* self._prevTargetMotorPosition
    markedPositions,          \* self._markedPositions (a dict: label -> position)
    motorSteppingStyle,       \* self._motorSteppingStyle
    motorMotionReversed,      \* self._motorMotionReversed
    idlingReportInterval,     \* self._idlingReportInterval
    motionReportInterval,     \* self._motionReportInterval
    targetIdlingReportInterval,   \* self._targetIdlingReportInterval
    targetMotionReportInterval,   \* self._targetMotionReportInterval
    idlingReportCountdownTimer,   \* self._idlingReportCountdownTimer
    motionReportCountdownTimer,   \* self._motionReportCountdownTimer
    countdownTimer,           \* self._countdownTimer: "idling" or "motion"
    \* state shared between the threads
    observer,                 \* self._observer
    commandQueue,             \* self._commandQueue
    lastSteadyStatePosition,  \* self._lastSteadyStatePosition
    motionCompleteEvent,      \* self._motionCompleteEvent (TRUE = set)
    waitCompleteEvent,        \* self._waitCompleteEvent (TRUE = set)
    running,                  \* self._running
    \* the loop thread: its position and the locals of _eventLoop
    loopPc,
    prevMoving,
    moving,
    command,                  \* the command executed in this iteration, or NoCmd
    \* the thread that calls wait(): its position and its local pos, which is
    \* the value wait() returns
    waiterPc,
    pos,
    \* history
    enqueued,                 \* every command put on the queue, in order
    executed,                 \* every command executed, in order
    targetHistory,            \* the target at the start and after each executed command
    positionHistory,          \* the position at which each command was executed
    stepperCalls,             \* every call made on the stepper motor, in order
    reports,                  \* the last MaxReports invocations of the observer
    styleCalls,               \* the steppingStyle() calls that callers have issued
    stepperFails,             \* the environment: the next onestep() raises
    \* the life cycle
    looping,                  \* self._looping
    future,                   \* self._future: "None", or "Future" once a loop was submitted
    ownerPc,                  \* the thread that starts and stops: "idle", or the call it is in
    lastCall,                 \* its last call of the life cycle and the outcome
    looper,                   \* the thread whose _eventLoop is in loopVars: "pool" or "run"
    other,                    \* loopVars of the _eventLoop of the other thread
    construction,             \* the call of __init__: its stepperNo and its outcome
    \* chronos.py: a CountdownTimer on its own
    now,                      \* time.time()
    theTimer,                 \* the CountdownTimer: its stopwatch and its period
    restartedAt,              \* the time of its last restart(), Never before the first
    timerCall,                \* the last call on it and what the call returned
    \* SmartBlindController.py
    blind,                    \* the fields of the SmartBlindController
    events,                   \* the calls of its observer in the last update from the motor
    lastRestPosition          \* motorPosition when it last equalled the target

motorVars == <<motorPosition, targetMotorPosition, markedPositions,
               motorSteppingStyle, motorMotionReversed>>
prevVars == <<prevMotorPosition, prevTargetMotorPosition>>
eventVars == <<lastSteadyStatePosition, motionCompleteEvent, waitCompleteEvent>>
loopVars == <<loopPc, prevMoving, moving, command>>
waiterVars == <<waiterPc, pos>>
queueVars == <<commandQueue, enqueued>>
historyVars == <<executed, targetHistory, positionHistory>>
intervalVars == <<idlingReportInterval, motionReportInterval,
                  targetIdlingReportInterval, targetMotionReportInterval>>
timerVars == <<idlingReportCountdownTimer, motionReportCountdownTimer,
               countdownTimer>>
reportVars == <<intervalVars, timerVars, reports>>
lifecycleVars == <<looping, future, ownerPc, lastCall, looper, other>>
chronosVars == <<now, theTimer, restartedAt, timerCall>>
blindVars == <<blind, events>>
callerVars == <<observer, styleCalls, stepperFails, lifecycleVars, construction,
                chronosVars, blindVars>>

vars == <<motorVars, prevVars, eventVars, loopVars, waiterVars, queueVars,
          running, historyVars, stepperCalls, lastRestPosition,
          reportVars, callerVars>>

(***************************************************************************)
(* The commands, as functions of the motor state                           *)
(*   s = [position, target, marks, style, reversed,                        *)
(*        targetIdlingReportInterval, targetMotionReportInterval].         *)
(***************************************************************************)
MotorState ==
    [position |-> motorPosition, target |-> targetMotorPosition,
     marks |-> markedPositions, style |-> motorSteppingStyle,
     reversed |-> motorMotionReversed,
     targetIdlingReportInterval |-> targetIdlingReportInterval,
     targetMotionReportInterval |-> targetMotionReportInterval]

\* The result of running a command: the state it leaves and whether it raised.
Returned(s) == [state |-> s, raised |-> FALSE]
Raised(s) == [state |-> s, raised |-> TRUE]

\* A moveBy that counts from the current position instead of the target.
_moveBy_fromPosition(s, steps) == Returned([s EXCEPT !.target = s.position + steps])

_moveBy(s, steps) == Returned([s EXCEPT !.target = @ + steps])

\* A moveTo that adds the position to the target.
_moveTo_relative(s, position) == Returned([s EXCEPT !.target = @ + position])

_moveTo(s, position) == Returned([s EXCEPT !.target = position])

\* A halt with the assignment the other way round.
_halt_swapped(s) == Returned([s EXCEPT !.position = s.target])

_halt(s) == Returned([s EXCEPT !.target = s.position])

\* A mark that records the target instead of the current position.
_mark_target(s, label) ==
    Returned([s EXCEPT !.marks =
        [l \in DOMAIN s.marks \cup {label} |->
            IF l = label THEN s.target ELSE s.marks[l]]])

_mark(s, label) ==
    Returned([s EXCEPT !.marks =
        [l \in DOMAIN s.marks \cup {label} |->
            IF l = label THEN s.position ELSE s.marks[l]]])

_goto(s, label) ==
    IF label \notin DOMAIN s.marks
    THEN Raised(s)
    ELSE Returned([s EXCEPT !.target = s.marks[label]])

_reverseMotion(s, reversed) == Returned([s EXCEPT !.reversed = reversed])

\* _motionReportInterval and _setIdleUpdateInterval: the methods that set the
\* pending intervals. No command calls them.
_motionReportInterval(s, intervalSecs) ==
    Returned([s EXCEPT !.targetMotionReportInterval = intervalSecs])

_setIdleUpdateInterval(s, intervalSecs) ==
    Returned([s EXCEPT !.targetIdlingReportInterval = intervalSecs])

\* self._motionInterval and self._idleUpdateInterval, which the lambdas of
\* motionUpdateInterval() and idleUpdateInterval() call: the class has no
\* attribute of either name, the call raises AttributeError.
_motionInterval(s, intervalSecs) == Raised(s)

_idleUpdateInterval(s, intervalSecs) == Raised(s)

_steppingStyle(s, steppingStyle) == Returned([s EXCEPT !.style = steppingStyle])

\* raise Exception('Motion speed control not yet implemented.')
_motionStepDelay(s, delaySecs) == Raised(s)

\* _MotorCommand.execute: calls the lambda the command was built with.
execute(cmd, s) ==
    CASE cmd.op = "moveBy" -> _moveBy(s, cmd.n)
      [] cmd.op = "moveTo" -> _moveTo(s, cmd.n)
      [] cmd.op = "halt" -> _halt(s)
      [] cmd.op = "mark" -> _mark(s, cmd.label)
      [] cmd.op = "goto" -> _goto(s, cmd.label)
      [] cmd.op = "reverseMotion" -> _reverseMotion(s, cmd.flag)
      [] cmd.op = "motionUpdateInterval" -> _motionInterval(s, cmd.n)
      [] cmd.op = "idleUpdateInterval" -> _idleUpdateInterval(s, cmd.n)
      [] cmd.op = "steppingStyle" -> _steppingStyle(s, cmd.label)
      [] cmd.op = "motionStepDelay" -> _motionStepDelay(s, cmd.n)

\* An _executeCommandSafely without its except clause.
_executeCommandSafely_uncaught(cmd, s) ==
    LET r == execute(cmd, s)
    IN  [state |-> r.state, raised |-> r.raised, propagated |-> r.raised]

\* _executeCommandSafely: an exception of the command is caught and logged,
\* it does not propagate into _eventLoop.
_executeCommandSafely(cmd, s) ==
    LET r == execute(cmd, s)
    IN  [state |-> r.state, raised |-> r.raised, propagated |-> FALSE]

\* A _performMotionIncrement with the two branches of the direction swapped.
_performMotionIncrement_swapped(targetPosition, currentPosition, reversed, style) ==
    LET noOfStepsRemaining == targetPosition - currentPosition
        backwards == noOfStepsRemaining < 0
        actuallyBackwards == IF backwards THEN reversed ELSE ~reversed
        motionDirection == IF actuallyBackwards THEN BACKWARD ELSE FORWARD
    IN  IF noOfStepsRemaining # 0
        THEN [logicalChange |-> IF backwards THEN -1 ELSE 1,
              calls |-> <<OneStep(motionDirection, style)>>
                        \o (IF currentPosition = targetPosition
                            THEN <<Release>> ELSE <<>>)]
        ELSE [logicalChange |-> 0, calls |-> <<>>]

\* A _performMotionIncrement that steps the motor and returns no change.
_performMotionIncrement_stalled(targetPosition, currentPosition, reversed, style) ==
    LET noOfStepsRemaining == targetPosition - currentPosition
        backwards == noOfStepsRemaining < 0
        actuallyBackwards == IF backwards THEN ~reversed ELSE reversed
        motionDirection == IF actuallyBackwards THEN BACKWARD ELSE FORWARD
    IN  IF noOfStepsRemaining # 0
        THEN [logicalChange |-> 0,
              calls |-> <<OneStep(motionDirection, style)>>]
        ELSE [logicalChange |-> 0, calls |-> <<>>]

\* A _performMotionIncrement that accounts for all the remaining steps at once.
_performMotionIncrement_allAtOnce(targetPosition, currentPosition, reversed, style) ==
    LET noOfStepsRemaining == targetPosition - currentPosition
        backwards == noOfStepsRemaining < 0
        actuallyBackwards == IF backwards THEN ~reversed ELSE reversed
        motionDirection == IF actuallyBackwards THEN BACKWARD ELSE FORWARD
    IN  IF noOfStepsRemaining # 0
        THEN [logicalChange |-> noOfStepsRemaining,
              calls |-> <<OneStep(motionDirection, style)>>]
        ELSE [logicalChange |-> 0, calls |-> <<>>]

\* _performMotionIncrement: the logical change and the calls made on the
\* stepper motor.
_performMotionIncrement(targetPosition, currentPosition, reversed, style) ==
    LET noOfStepsRemaining == targetPosition - currentPosition
        backwards == noOfStepsRemaining < 0
        actuallyBackwards == IF backwards THEN ~reversed ELSE reversed
        motionDirection == IF actuallyBackwards THEN BACKWARD ELSE FORWARD
    IN  IF noOfStepsRemaining # 0
        THEN [logicalChange |-> IF backwards THEN -1 ELSE 1,
              calls |-> <<OneStep(motionDirection, style)>>
                        \o (IF currentPosition = targetPosition
                            THEN <<Release>> ELSE <<>>)]
        ELSE [logicalChange |-> 0, calls |-> <<>>]

\* _performMotionIncrement when onestep() raises: the finally clause runs
\* with the positions it was called with, then the exception leaves the
\* function (there is no except clause).
_performMotionIncrementRaising(targetPosition, currentPosition, reversed, style) ==
    LET noOfStepsRemaining == targetPosition - currentPosition
        backwards == noOfStepsRemaining < 0
        actuallyBackwards == IF backwards THEN ~reversed ELSE reversed
        motionDirection == IF actuallyBackwards THEN BACKWARD ELSE FORWARD
    IN  IF noOfStepsRemaining # 0
        THEN [raised |-> TRUE,
              calls |-> <<OneStep(motionDirection, style)>>
                        \o (IF currentPosition = targetPosition
                            THEN <<Release>> ELSE <<>>)]
        ELSE [raised |-> FALSE, calls |-> <<>>]

(***************************************************************************)
(* chronos.py: Stopwatch and CountdownTimer as the code computes them,     *)
(* with the time of time.time() as an argument.                            *)
(***************************************************************************)
Never == 0 - 1

\* Stopwatch.__init__, lines 33-37.
Stopwatch(time) ==
    [start |-> time, stop |-> time, accumulative |-> 0, running |-> FALSE]

\* Stopwatch.elapsed, lines 50-53.
elapsed(stopwatch, time) ==
    LET end == IF stopwatch.running THEN time ELSE stopwatch.stop
    IN  (end - stopwatch.start) + stopwatch.accumulative

\* Stopwatch.restart, lines 55-59.
Stopwatch_restart(stopwatch, time) ==
    [start |-> time, stop |-> time, accumulative |-> 0, running |-> TRUE]

\* CountdownTimer.__init__, lines 78-80.
Countdown(interval, time) == [stopwatch |-> Stopwatch(time), period |-> interval]

\* CountdownTimer.hasExpired, lines 93-94: the timer after the call and the
\* value returned.
hasExpired_restarting(self, time) ==
    [self |-> [self EXCEPT !.stopwatch = Stopwatch_restart(@, time)],
     result |-> elapsed(self.stopwatch, time) >= self.period]

hasExpired(self, time) ==
    [self |-> self, result |-> elapsed(self.stopwatch, time) >= self.period]

\* CountdownTimer.period, lines 96-97.
period(self, interval) == [self EXCEPT !.period = interval]

\* CountdownTimer.restart, lines 99-100.
restart(self, time) == [self EXCEPT !.stopwatch = Stopwatch_restart(@, time)]

(***************************************************************************)
(* chronos.CountdownTimer, without the clock: a timer is its period,       *)
(* whether its stopwatch runs, and whether the time elapsed on the         *)
(* stopwatch has reached the period. A stopwatch that was never started    *)
(* shows an elapsed time of 0 for ever.                                    *)
(***************************************************************************)
CountdownTimer(interval) ==
    [period |-> interval, running |-> FALSE, expired |-> interval <= 0]

TimerRestart(timer) ==
    [timer EXCEPT !.running = TRUE, !.expired = timer.period <= 0]

TimerHasExpired(timer) == timer.expired

\* period(interval): the elapsed time is kept; whether it has reached the
\* new period is known only where the new period is not positive, the
\* callers restart the timer before they read it.
TimerPeriod(timer, interval) ==
    [timer EXCEPT !.period = interval, !.expired = @ \/ interval <= 0]

\* The timer after `duration' has passed.
TimerAfter(timer, duration) ==
    [timer EXCEPT !.expired = @ \/ (timer.running /\ timer.period <= duration)]

\* The invocations in the history are numbered 1, 2, .., MaxReports + 1, 1, ..
\* so that a new invocation always changes the history.
LastReportNo(history) ==
    IF history = <<>> THEN 0 ELSE history[Len(history)].no

NextReportNo(history) == (LastReportNo(history) % (MaxReports + 1)) + 1

RECURSIVE Numbered(_, _)
Numbered(history, calls) ==
    IF calls = <<>> THEN history
    ELSE Numbered(Append(history, [no |-> NextReportNo(history),
                                   target |-> Head(calls).target,
                                   actual |-> Head(calls).actual,
                                   raised |-> Head(calls).raised]),
                  Tail(calls))

\* The history of observer invocations, extended by `calls': the last
\* MaxReports of them.
Reported(calls) ==
    LET all == Numbered(reports, calls)
    IN  IF Len(all) <= MaxReports THEN all
        ELSE SubSeq(all, Len(all) - MaxReports + 1, Len(all))

\* _onPositionUpdate without its except clauses.
_onPositionUpdate_uncaught(obs, targetPosition, actualPosition) ==
    [calls |-> IF obs = NoObserver THEN <<>>
               ELSE <<Report(targetPosition, actualPosition, obs = RaisingCallback)>>,
     propagated |-> obs = RaisingCallback]

\* _onPositionUpdate: the invocation of the observer, if there is one; an
\* exception of the observer is caught and logged.
_onPositionUpdate(obs, targetPosition, actualPosition) ==
    [calls |-> IF obs = NoObserver THEN <<>>
               ELSE <<Report(targetPosition, actualPosition, obs = RaisingCallback)>>,
     propagated |-> FALSE]

(***************************************************************************)
(* SmartBlindController.py: the controller of a blind on top of the motor. *)
(* A position that is None is <<>>, a position p is <<p>>; a percentage is *)
(* the fraction n / d in lowest terms with d > 0, so that two percentages  *)
(* are equal exactly when the floats of the code are.                      *)
(***************************************************************************)
None == <<>>

\* The observer that SmartBlindController.__init__ registers with the motor.
BlindCallback == "SmartBlindController._onMotionUpdate"

\* MotionEvent
STARTING == "STARTING"
MOVING == "MOVING"
STOPPED == "STOPPED"

\* self._stepSize = 50
StepSize == 50

Abs(n) == IF n < 0 THEN 0 - n ELSE n

RECURSIVE GCD(_, _)
GCD(a, b) == IF b = 0 THEN a ELSE GCD(b, a % b)

\* n / d * 100.0, d # 0
Percentage(n, d) ==
    LET g == GCD(Abs(n * 100), Abs(d))
        sign == IF d < 0 THEN 0 - 1 ELSE 1
    IN  [n |-> (sign * n * 100) \div g, d |-> (sign * d) \div g]

\* SmartBlindController.__init__, lines 79-121.
SmartBlindController ==
    [stepSize |-> StepSize, openedPosition |-> None, closedPosition |-> None,
     motorCurrentPosition |-> 0, targetPercentage |-> Percentage(0, 1),
     actualPercentage |-> Percentage(0, 1), openIs100 |-> TRUE,
     observer |-> NoObserver]

\* A call of the observer of the blind.
Event(targetPercentage, actualPercentage, motionEvent) ==
    [target |-> targetPercentage, actual |-> actualPercentage, event |-> motionEvent]

\* _calculatePercentageFromPosition, lines 449-458; max = min raises
\* ZeroDivisionError.
_calculatePercentageFromPosition(position, openedPosition, closedPosition, topIs100) ==
    LET max == IF topIs100 THEN openedPosition ELSE closedPosition
        min == IF topIs100 THEN closedPosition ELSE openedPosition
    IN  IF max = min
            THEN [raised |-> TRUE, percentage |-> Percentage(0, 1)]
            ELSE [raised |-> FALSE, percentage |-> Percentage(position - min, max - min)]

\* _processMotionUpdate, lines 363-424: the fields after it, the calls it
\* has made of the observer and whether it raised. With no observer the
\* first call of the observer raises TypeError.
_processMotionUpdate(self, targetPosition, actualPosition) ==
    LET noted == [self EXCEPT !.motorCurrentPosition = actualPosition]
        calibrating == (self.openedPosition = None) \/ (self.closedPosition = None)
    IN  IF calibrating
        THEN [self |-> noted, events |-> <<>>, raised |-> FALSE]
        ELSE
        LET target == _calculatePercentageFromPosition(targetPosition,
                          self.openedPosition[1], self.closedPosition[1], self.openIs100)
            actual == _calculatePercentageFromPosition(actualPosition,
                          self.openedPosition[1], self.closedPosition[1], self.openIs100)
            targetPercentage == target.percentage
            actualPercentage == actual.percentage
            wasMoving == (self.targetPercentage # self.actualPercentage)
            nowMoving == (targetPercentage # actualPercentage)
            starting == IF ~wasMoving /\ nowMoving
                        THEN <<Event(targetPercentage, actualPercentage, STARTING)>>
                        ELSE <<>>
            other_ == IF wasMoving /\ ~nowMoving
                      THEN <<Event(targetPercentage, actualPercentage, STOPPED)>>
                      ELSE <<Event(targetPercentage, actualPercentage, MOVING)>>
        IN  IF target.raised \/ self.observer = NoObserver
            THEN [self |-> noted, events |-> <<>>, raised |-> TRUE]
            ELSE [self |-> [noted EXCEPT !.targetPercentage = targetPercentage,
                                         !.actualPercentage = actualPercentage],
                  events |-> starting \o other_,
                  raised |-> FALSE]

\* _onMotionUpdate, lines 341-355: an exception of _processMotionUpdate is
\* caught and logged.
_onMotionUpdate(self, targetPosition, actualPosition) ==
    LET r == _processMotionUpdate(self, targetPosition, actualPosition)
    IN  [self |-> r.self, events |-> r.events]

\* The blind after the invocations `calls' of the observer of the motor, if
\* that observer is the blind: its fields and the events of the last one.
RECURSIVE Observed(_, _, _)
Observed(obs, b, calls) ==
    IF obs # BlindCallback \/ calls = <<>> THEN b
    ELSE Observed(obs,
                  _onMotionUpdate(b.self, Head(calls).target, Head(calls).actual),
                  Tail(calls))

\* wind, setOpenedPoint, setClosedPoint, open, close and stepSize, lines
\* 193-307: the fields after the call, the commands passed to the motor and
\* whether the call raised.
Called(self, commands, raised) ==
    [self |-> self, commands |-> commands, raised |-> raised]

wind(self, noOfSteps) == Called(self, <<MoveByCmd(noOfSteps * self.stepSize)>>, FALSE)

setOpenedPoint(self) ==
    Called([self EXCEPT !.openedPosition = <<self.motorCurrentPosition>>], <<>>, FALSE)

setClosedPoint(self) ==
    Called([self EXCEPT !.closedPosition = <<self.motorCurrentPosition>>], <<>>, FALSE)

open(self) ==
    IF self.openedPosition = None
        THEN Called(self, <<>>, TRUE)
        ELSE Called(self, <<MoveToCmd(self.openedPosition[1])>>, FALSE)

close(self) ==
    IF self.closedPosition = None
        THEN Called(self, <<>>, TRUE)
        ELSE Called(self, <<MoveToCmd(self.closedPosition[1])>>, FALSE)

stepSize(self, size) == Called([self EXCEPT !.stepSize = size], <<>>, FALSE)

(***************************************************************************)
(* MQTTSmartBlind.py: the commands of the message bus. The payload is the  *)
(* number of the parameter of the command, if it has one.                  *)
(***************************************************************************)
\* __initialiseRouting, lines 210-225, with the handlers of lines 557-651.
__executeSetStepSize(self, payload) == stepSize(self, payload)
__executeWind(self, payload) == wind(self, payload)
__executeSetOpened(self, payload) == setOpenedPoint(self)
__executeSetClosed(self, payload) == setClosedPoint(self)
__executeOpen(self, payload) == open(self)
__executeClose(self, payload) == open(self)

\* __executeCommand, lines 543-549: a command that is not routed raises.
__executeCommand(self, topic, payload) ==
    CASE topic = "calibrate/set-step-size" -> __executeSetStepSize(self, payload)
      [] topic = "calibrate/wind" -> __executeWind(self, payload)
      [] topic = "calibrate/set-opened" -> __executeSetOpened(self, payload)
      [] topic = "calibrate/set-closed" -> __executeSetClosed(self, payload)
      [] topic = "control/open" -> __executeOpen(self, payload)
      [] topic = "control/close" -> __executeClose(self, payload)
      [] OTHER -> Called(self, <<>>, TRUE)

(***************************************************************************)
(* Initial state: __init__.                                                *)
(***************************************************************************)
\* __init__, lines 231-236: the range check on stepperNo and the choice of
\* the motor of the kit.
__init__anyStepperNo(stepperNo) ==
    [raised |-> FALSE, stepperMotor |-> "stepper1"]

__init__(stepperNo) ==
    IF (stepperNo < 1) \/ (stepperNo > 2)
        THEN [raised |-> TRUE, stepperMotor |-> "None"]
        ELSE [raised |-> FALSE,
              stepperMotor |-> IF stepperNo = 1 THEN "stepper1" ELSE "stepper1"]

\* AsyncStepperMotor(stepperNo) is about to be called.
Pending(stepperNo) ==
    [stepperNo |-> stepperNo, outcome |-> "pending", stepperMotor |-> "None"]

\* AsyncStepperMotor(stepperNo) has returned the controller or has raised.
Constructed(stepperNo) ==
    LET r == __init__(stepperNo)
    IN  [stepperNo |-> stepperNo,
         outcome |-> IF r.raised THEN "raised" ELSE "constructed",
         stepperMotor |-> r.stepperMotor]

\* The fields as __init__ assigns them, with the call of __init__ at c.
InitWith(c) ==
    /\ construction = c
    /\ blind = SmartBlindController
    /\ events = <<>>
    /\ now = 0
    /\ theTimer = Countdown(MotionReportInterval, 0)
    /\ restartedAt = Never
    /\ timerCall = [op |-> "__init__", result |-> FALSE]
    /\ motorPosition = 0
    /\ targetMotorPosition = 0
    /\ prevMotorPosition = 0
    /\ prevTargetMotorPosition = 0
    /\ markedPositions = <<>>
    /\ motorSteppingStyle = DOUBLE
    /\ motorMotionReversed = FALSE
    /\ commandQueue = <<>>
    /\ lastSteadyStatePosition = 0
    /\ motionCompleteEvent = TRUE
    /\ waitCompleteEvent = TRUE
    /\ running = FALSE
    /\ loopPc = "off"
    /\ prevMoving = FALSE
    /\ moving = FALSE
    /\ command = NoCmd
    /\ waiterPc = "idle"
    /\ pos = 0
    /\ enqueued = <<>>
    /\ executed = <<>>
    /\ targetHistory = <<0>>
    /\ positionHistory = <<>>
    /\ stepperCalls = <<>>
    /\ lastRestPosition = 0
    /\ idlingReportInterval = IdlingReportInterval
    /\ motionReportInterval = MotionReportInterval
    /\ targetIdlingReportInterval = IdlingReportInterval
    /\ targetMotionReportInterval = MotionReportInterval
    /\ idlingReportCountdownTimer = CountdownTimer(IdlingReportInterval)
    /\ motionReportCountdownTimer = CountdownTimer(MotionReportInterval)
    /\ countdownTimer = "idling"
    /\ observer = NoObserver
    /\ reports = <<>>
    /\ styleCalls = {}
    /\ stepperFails = FALSE
    /\ looping = TRUE
    /\ future = "None"
    /\ ownerPc = "idle"
    /\ lastCall = Outcome("__init__", "returned")
    /\ looper = "pool"
    /\ other = [loopPc |-> "off", prevMoving |-> FALSE, moving |-> FALSE,
                command |-> NoCmd]

\* The controller as AsyncStepperMotor() constructs it: stepperNo = 1.
Init == InitWith(Constructed(1))

(***************************************************************************)
(* Caller threads.                                                         *)
(***************************************************************************)
\* start(): raises when already running, else submits _eventLoop to the pool.
start ==
    /\ ownerPc = "idle"
    /\ looper = "pool"
    /\ ~running
    /\ running' = TRUE
    /\ loopPc' = "entry"
    /\ future' = "Future"
    /\ lastCall' = Outcome("start", "returned")
    /\ UNCHANGED <<motorVars, prevVars, eventVars, prevMoving, moving, command,
                   waiterVars, queueVars, historyVars, stepperCalls, lastRestPosition,
                   reportVars, observer, styleCalls, stepperFails, looping,
                   ownerPc, looper, other, construction, chronosVars,
                   blindVars>>

\* _queueCommand that puts the command twice.
_queueCommand_twice(cmd) ==
    /\ Len(enqueued) < MaxCmds
    /\ commandQueue' = commandQueue \o <<cmd, cmd>>
    /\ enqueued' = Append(enqueued, cmd)
    /\ UNCHANGED <<motorVars, prevVars, eventVars, loopVars, waiterVars,
                   running, historyVars, stepperCalls, lastRestPosition,
                   reportVars, callerVars>>

\* _queueCommand, as called by moveBy, moveTo, halt, mark, goto, reverseMotion.
_queueCommand(cmd) ==
    /\ Len(enqueued) < MaxCmds
    /\ commandQueue' = Append(commandQueue, cmd)
    /\ enqueued' = Append(enqueued, cmd)
    /\ UNCHANGED <<motorVars, prevVars, eventVars, loopVars, waiterVars,
                   running, historyVars, stepperCalls, lastRestPosition,
                   reportVars, callerVars>>

Enqueue == \E cmd \in Commands : _queueCommand(cmd)

\* wait(), line 338: self._waitCompleteEvent.clear()
WaitClear ==
    /\ waiterPc \in {"idle", "returned"}
    /\ waitCompleteEvent' = FALSE
    /\ waiterPc' = "waiting"
    /\ UNCHANGED <<motorVars, prevVars, lastSteadyStatePosition, motionCompleteEvent,
                   loopVars, pos, queueVars, running, historyVars,
                   stepperCalls, lastRestPosition, reportVars, callerVars>>

\* wait(), line 340: self._motionCompleteEvent.wait() returns
WaitMotionComplete ==
    /\ waiterPc = "waiting"
    /\ motionCompleteEvent
    /\ waiterPc' = "read"
    /\ UNCHANGED <<motorVars, prevVars, eventVars, loopVars, pos,
                   queueVars, running, historyVars, stepperCalls, lastRestPosition,
                   reportVars, callerVars>>

\* wait(), line 341: pos = self._lastSteadyStatePosition
WaitRead ==
    /\ waiterPc = "read"
    /\ pos' = lastSteadyStatePosition
    /\ waiterPc' = "signal"
    /\ UNCHANGED <<motorVars, prevVars, eventVars, loopVars,
                   queueVars, running, historyVars, stepperCalls, lastRestPosition,
                   reportVars, callerVars>>

\* wait(), lines 343-345: self._waitCompleteEvent.set(); return pos
WaitReturn ==
    /\ waiterPc = "signal"
    /\ waitCompleteEvent' = TRUE
    /\ waiterPc' = "returned"
    /\ UNCHANGED <<motorVars, prevVars, lastSteadyStatePosition, motionCompleteEvent,
                   loopVars, pos, queueVars, running, historyVars,
                   stepperCalls, lastRestPosition, reportVars, callerVars>>

(***************************************************************************)
(* The loop thread: _eventLoop.                                            *)
(***************************************************************************)
\* The position at which the motor most recently was at its target.
RestAfter(position, target) ==
    IF position = target THEN position ELSE lastRestPosition

\* Lines 545-560: before the first iteration.
LoopEntry ==
    /\ loopPc = "entry"
    /\ motionCompleteEvent' = TRUE
    /\ prevMoving' = (prevMotorPosition # prevTargetMotorPosition)
    /\ moving' = (motorPosition # targetMotorPosition)
    /\ countdownTimer' = "idling"
    /\ loopPc' = "top"
    /\ UNCHANGED <<motorVars, prevVars, lastSteadyStatePosition, waitCompleteEvent,
                   command, waiterVars, queueVars, running, historyVars,
                   stepperCalls, lastRestPosition, intervalVars,
                   idlingReportCountdownTimer, motionReportCountdownTimer,
                   reports, callerVars>>

\* Takes the head of the queue and runs it under _executeCommandSafely; the
\* loop goes on at `next' unless the exception propagated out of _eventLoop.
ExecuteHead(next) ==
    LET cmd == Head(commandQueue)
        r == _executeCommandSafely(cmd, MotorState)
    IN  /\ commandQueue' = Tail(commandQueue)
        /\ command' = cmd
        /\ executed' = Append(executed, cmd)
        /\ targetHistory' = Append(targetHistory, r.state.target)
        /\ positionHistory' = Append(positionHistory, motorPosition)
        /\ motorPosition' = r.state.position
        /\ targetMotorPosition' = r.state.target
        /\ markedPositions' = r.state.marks
        /\ motorSteppingStyle' = r.state.style
        /\ motorMotionReversed' = r.state.reversed
        /\ targetIdlingReportInterval' = r.state.targetIdlingReportInterval
        /\ targetMotionReportInterval' = r.state.targetMotionReportInterval
        /\ lastRestPosition' = RestAfter(r.state.position, r.state.target)
        /\ loopPc' = IF r.propagated THEN "crashed" ELSE next
        /\ UNCHANGED <<prevVars, eventVars, prevMoving, moving, waiterVars,
                       enqueued, running, stepperCalls, idlingReportInterval,
                       motionReportInterval, timerVars, reports, callerVars>>

\* Lines 562-571: not moving, get(timeout) returns a command; it is executed.
LoopIdleCommand ==
    /\ loopPc = "top"
    /\ looping
    /\ ~moving
    /\ commandQueue # <<>>
    /\ ExecuteHead("report")

\* Lines 570-575: not moving, get(timeout) times out on the empty queue,
\* after self._idlingReportInterval.
LoopIdleTimeout ==
    /\ loopPc = "top"
    /\ looping
    /\ ~moving
    /\ commandQueue = <<>>
    /\ command' = NoCmd
    /\ idlingReportCountdownTimer' =
           TimerAfter(idlingReportCountdownTimer, idlingReportInterval)
    /\ motionReportCountdownTimer' =
           TimerAfter(motionReportCountdownTimer, idlingReportInterval)
    /\ loopPc' = "report"
    /\ UNCHANGED <<motorVars, prevVars, eventVars, prevMoving, moving, waiterVars,
                   queueVars, running, historyVars, stepperCalls, lastRestPosition,
                   intervalVars, countdownTimer, reports, callerVars>>

\* Lines 583-585: moving, a command is pending; it is executed.
LoopMovingCommand ==
    /\ loopPc = "top"
    /\ looping
    /\ moving
    /\ commandQueue # <<>>
    /\ ExecuteHead("increment")

\* Line 583: moving, the queue is empty.
LoopMovingNoCommand ==
    /\ loopPc = "top"
    /\ looping
    /\ moving
    /\ commandQueue = <<>>
    /\ command' = NoCmd
    /\ loopPc' = "increment"
    /\ UNCHANGED <<motorVars, prevVars, eventVars, prevMoving, moving, waiterVars,
                   queueVars, running, historyVars, stepperCalls, lastRestPosition,
                   reportVars, callerVars>>

\* Lines 587-589: one motion increment. The call is in no try statement of
\* _eventLoop: an exception of onestep() ends the loop thread.
LoopIncrement ==
    /\ loopPc = "increment"
    /\ LET r == _performMotionIncrement(targetMotorPosition, motorPosition,
                                        motorMotionReversed, motorSteppingStyle)
           f == _performMotionIncrementRaising(targetMotorPosition, motorPosition,
                                               motorMotionReversed, motorSteppingStyle)
       IN  IF stepperFails /\ f.raised
           THEN /\ stepperCalls' = stepperCalls \o f.calls
                /\ loopPc' = "crashed"
                /\ UNCHANGED <<motorPosition, lastRestPosition>>
           ELSE /\ stepperCalls' = stepperCalls \o r.calls
                /\ motorPosition' = motorPosition + r.logicalChange
                /\ lastRestPosition' =
                       RestAfter(motorPosition + r.logicalChange, targetMotorPosition)
                /\ loopPc' = "report"
    /\ UNCHANGED <<targetMotorPosition, markedPositions, motorSteppingStyle,
                   motorMotionReversed, prevVars, eventVars, prevMoving, moving,
                   command, waiterVars, queueVars, running, historyVars,
                   reportVars, callerVars>>

\* Lines 641-644: the end of an iteration.
EndIteration(nowMoving) ==
    /\ prevMotorPosition' = motorPosition
    /\ prevTargetMotorPosition' = targetMotorPosition
    /\ prevMoving' = nowMoving
    /\ loopPc' = "top"

\* Lines 591-595: the pending interval that the iteration accepts.
AcceptedInterval(idling, targetIdling, motion, targetMotion) ==
    IF targetIdling # idling THEN "idling"
    ELSE IF targetMotion # motion THEN "motion"
    ELSE "none"

\* _acceptNewIdlingReportingInterval and _acceptNewMotionReportingInterval,
\* the timer: it gets the new period and, after the report, is restarted.
AcceptedTimer(timer, interval) == TimerRestart(TimerPeriod(timer, interval))

\* Lines 610-636 with the test of the timer before the tests of the edges.
Edge_timerFirst(wasMoving, nowMoving, timerExpired) ==
    IF timerExpired THEN "tick"
    ELSE IF ~wasMoving /\ nowMoving THEN "started"
    ELSE IF wasMoving /\ ~nowMoving THEN "finished"
    ELSE "none"

\* Lines 610-636 without the branch of the edge from moving to not moving.
Edge_noFinish(wasMoving, nowMoving, timerExpired) ==
    IF ~wasMoving /\ nowMoving THEN "started"
    ELSE IF timerExpired THEN "tick"
    ELSE "none"

\* Lines 610-636: the branch that an iteration takes.
Edge(wasMoving, nowMoving, timerExpired) ==
    IF ~wasMoving /\ nowMoving THEN "started"
    ELSE IF wasMoving /\ ~nowMoving THEN "finished"
    ELSE IF timerExpired THEN "tick"
    ELSE "none"

\* Lines 622 and 638: the branches that call _onPositionUpdate.
Reports_everyBranch(edge) == edge # "none"

Reports(edge) == edge \in {"finished", "tick"}

\* Lines 615 and 627: the timer that self._countdownTimer refers to after
\* the branch.
SelectedTimer_kept(edge, selected) == selected

SelectedTimer(edge, selected) ==
    IF edge = "started" THEN "motion"
    ELSE IF edge = "finished" THEN "idling"
    ELSE selected

\* Lines 591-627 and 636-644: a pending interval is accepted, moving is
\* recomputed and the edge or the expired timer is handled, up to the wait on
\* _waitCompleteEvent on the edge from moving to not moving.
LoopEdge ==
    /\ loopPc = "report"
    /\ LET accepted == AcceptedInterval(idlingReportInterval, targetIdlingReportInterval,
                                        motionReportInterval, targetMotionReportInterval)
           update == _onPositionUpdate(observer, targetMotorPosition, motorPosition)
           idlingTimer == IF accepted = "idling"
                          THEN AcceptedTimer(idlingReportCountdownTimer,
                                             targetIdlingReportInterval)
                          ELSE idlingReportCountdownTimer
           motionTimer == IF accepted = "motion"
                          THEN AcceptedTimer(motionReportCountdownTimer,
                                             targetMotionReportInterval)
                          ELSE motionReportCountdownTimer
           acceptCalls == IF accepted # "none" THEN update.calls ELSE <<>>
           nowMoving == (motorPosition # targetMotorPosition)
           selected == IF countdownTimer = "idling" THEN idlingTimer ELSE motionTimer
           edge == Edge(prevMoving, nowMoving, TimerHasExpired(selected))
           edgeCalls == IF Reports(edge) THEN update.calls ELSE <<>>
           calls == acceptCalls \o edgeCalls
       IN  IF calls # <<>> /\ update.propagated
           THEN /\ reports' = Reported(<<Head(calls)>>)
                /\ loopPc' = "crashed"
                /\ UNCHANGED <<intervalVars, timerVars, moving, motionCompleteEvent,
                               stepperCalls, prevVars, prevMoving, blindVars>>
           ELSE /\ idlingReportInterval' =
                       IF accepted = "idling" THEN targetIdlingReportInterval
                       ELSE idlingReportInterval
                /\ motionReportInterval' =
                       IF accepted = "motion" THEN targetMotionReportInterval
                       ELSE motionReportInterval
                /\ reports' = Reported(calls)
                /\ LET observed == Observed(observer, [self |-> blind, events |-> events],
                                            calls)
                   IN  /\ blind' = observed.self
                       /\ events' = observed.events
                /\ moving' = nowMoving
                /\ countdownTimer' = SelectedTimer(edge, countdownTimer)
                /\ idlingReportCountdownTimer' =
                       IF edge = "finished" \/ (edge = "tick" /\ countdownTimer = "idling")
                       THEN TimerRestart(idlingTimer) ELSE idlingTimer
                /\ motionReportCountdownTimer' =
                       IF edge = "started" \/ (edge = "tick" /\ countdownTimer = "motion")
                       THEN TimerRestart(motionTimer) ELSE motionTimer
                /\ IF edge = "started"
                   THEN /\ motionCompleteEvent' = FALSE
                        /\ EndIteration(nowMoving)
                        /\ UNCHANGED stepperCalls
                   ELSE IF edge = "finished"
                   THEN /\ stepperCalls' = Append(stepperCalls, Release)
                        /\ loopPc' = "awaitWaiter"
                        /\ UNCHANGED <<motionCompleteEvent, prevVars, prevMoving>>
                   ELSE /\ EndIteration(nowMoving)
                        /\ UNCHANGED <<motionCompleteEvent, stepperCalls>>
    /\ UNCHANGED <<motorVars, lastSteadyStatePosition, waitCompleteEvent, command,
                   waiterVars, queueVars, running, historyVars, lastRestPosition,
                   targetIdlingReportInterval, targetMotionReportInterval,
                   observer, styleCalls, stepperFails, lifecycleVars, construction,
                   chronosVars>>

\* Line 632: self._waitCompleteEvent.wait() returns.
LoopAwaitWaiter ==
    /\ loopPc = "awaitWaiter"
    /\ waitCompleteEvent
    /\ loopPc' = "steady"
    /\ UNCHANGED <<motorVars, prevVars, eventVars, prevMoving, moving, command,
                   waiterVars, queueVars, running, historyVars, stepperCalls,
                   lastRestPosition, reportVars, callerVars>>

\* Line 633: self._lastSteadyStatePosition = self._motorPosition
LoopSteadyState ==
    /\ loopPc = "steady"
    /\ lastSteadyStatePosition' = motorPosition
    /\ loopPc' = "complete"
    /\ UNCHANGED <<motorVars, prevVars, motionCompleteEvent, waitCompleteEvent,
                   prevMoving, moving, command, waiterVars, queueVars, running,
                   historyVars, stepperCalls, lastRestPosition, reportVars,
                   callerVars>>

\* Lines 634 and 641-644: self._motionCompleteEvent.set(), end of the iteration.
LoopMotionComplete ==
    /\ loopPc = "complete"
    /\ motionCompleteEvent' = TRUE
    /\ EndIteration(moving)
    /\ UNCHANGED <<motorVars, lastSteadyStatePosition, waitCompleteEvent, moving,
                   command, waiterVars, queueVars, running, historyVars,
                   stepperCalls, lastRestPosition, reportVars, callerVars>>

Loop ==
    \/ LoopEntry
    \/ LoopIdleCommand
    \/ LoopIdleTimeout
    \/ LoopMovingCommand
    \/ LoopMovingNoCommand
    \/ LoopIncrement
    \/ LoopEdge
    \/ LoopAwaitWaiter
    \/ LoopSteadyState
    \/ LoopMotionComplete

Waiter ==
    \/ WaitClear
    \/ WaitMotionComplete
    \/ WaitRead
    \/ WaitReturn

(***************************************************************************)
(* The specification: any callers, one waiter, the loop.                   *)
(***************************************************************************)
Next ==
    \/ start
    \/ Enqueue
    \/ Waiter
    \/ Loop

Spec == Init /\ [][Next]_vars

\* The threads are scheduled: a thread that can take a step takes it.
Fairness == WF_vars(Loop) /\ WF_vars(Waiter)

FairSpec == Spec /\ Fairness

TypeOK ==
    /\ motorPosition \in Int
    /\ targetMotorPosition \in Int
    /\ DOMAIN markedPositions \subseteq Labels
    /\ motorMotionReversed \in BOOLEAN
    /\ loopPc \in {"off", "entry", "top", "increment", "report", "awaitWaiter",
                   "steady", "complete", "crashed", "exited", "returned"}
    /\ waiterPc \in {"idle", "waiting", "read", "signal", "returned"}

(***************************************************************************)
(* Reporting: a caller registers an observer and issues commands, among    *)
(* them the ones that raise on the loop thread; time passes. No thread     *)
(* calls wait().                                                           *)
(***************************************************************************)
\* observe(): self._observer = callback
observe(callback) ==
    /\ observer' = callback
    /\ UNCHANGED <<motorVars, prevVars, eventVars, loopVars, waiterVars, queueVars,
                   running, historyVars, stepperCalls, lastRestPosition,
                   reportVars, styleCalls, stepperFails, lifecycleVars,
                   construction, chronosVars, blindVars>>

Observe == \E callback \in {Callback, RaisingCallback} : observe(callback)

\* The commands of the reporting specification.
ReportCommands ==
    {MoveToCmd(MaxPos), MotionStepDelayCmd(1),
     IdleUpdateIntervalCmd(IntervalArg), MotionUpdateIntervalCmd(IntervalArg)}

ReportEnqueue == \E cmd \in ReportCommands : _queueCommand(cmd)

\* Time passes: a motion-report interval or an idle-report interval.
TimePasses ==
    /\ running
    /\ \E duration \in {motionReportInterval, idlingReportInterval} :
          /\ idlingReportCountdownTimer' =
                 TimerAfter(idlingReportCountdownTimer, duration)
          /\ motionReportCountdownTimer' =
                 TimerAfter(motionReportCountdownTimer, duration)
    /\ UNCHANGED <<motorVars, prevVars, eventVars, loopVars, waiterVars, queueVars,
                   running, historyVars, stepperCalls, lastRestPosition,
                   intervalVars, countdownTimer, reports, callerVars>>

NextReport ==
    \/ start
    \/ Observe
    \/ ReportEnqueue
    \/ TimePasses
    \/ Loop

SpecReport == Init /\ [][NextReport]_vars

\* The loop thread is scheduled.
FairSpecReport == SpecReport /\ WF_vars(Loop)

(***************************************************************************)
(* Failing commands: a caller issues commands whose actions raise on the   *)
(* loop thread, and a motion. No thread calls wait().                      *)
(***************************************************************************)
FailingCommands ==
    {MoveToCmd(MaxPos), MotionStepDelayCmd(1), IdleUpdateIntervalCmd(IntervalArg)}

FailingEnqueue == \E cmd \in FailingCommands : _queueCommand(cmd)

NextFailing ==
    \/ start
    \/ FailingEnqueue
    \/ Loop

SpecFailing == Init /\ [][NextFailing]_vars

\* The loop thread is scheduled.
FairSpecFailing == SpecFailing /\ WF_vars(Loop)

(***************************************************************************)
(* Motions: a caller issues motion commands and halt, a thread calls       *)
(* wait(); the threads are scheduled.                                      *)
(***************************************************************************)
MotionCommands == {MoveToCmd(MaxPos), MoveByCmd(-1), HaltCmd}

MotionEnqueue == \E cmd \in MotionCommands : _queueCommand(cmd)

NextMotion ==
    \/ start
    \/ MotionEnqueue
    \/ Waiter
    \/ Loop

SpecMotion == Init /\ [][NextMotion]_vars

FairSpecMotion == SpecMotion /\ Fairness

(***************************************************************************)
(* Actuator faults: the stepper motor's onestep() starts to raise.         *)
(***************************************************************************)
StepperBreaks ==
    /\ ~stepperFails
    /\ stepperFails' = TRUE
    /\ UNCHANGED <<motorVars, prevVars, eventVars, loopVars, waiterVars, queueVars,
                   running, historyVars, stepperCalls, lastRestPosition,
                   reportVars, observer, styleCalls, lifecycleVars,
                   construction, chronosVars, blindVars>>

FaultCommands == {MoveToCmd(MaxPos), MoveByCmd(-1), HaltCmd}

FaultEnqueue == \E cmd \in FaultCommands : _queueCommand(cmd)

NextFault ==
    \/ start
    \/ FaultEnqueue
    \/ StepperBreaks
    \/ Loop

SpecFault == Init /\ [][NextFault]_vars

(***************************************************************************)
(* Stepping styles: a caller sets the stepping style between motions.      *)
(***************************************************************************)
\* steppingStyle(): the description of the command is an f-string that calls
\* the global name _renderStepping; there is no such global (the function is
\* a method), the evaluation raises NameError in the caller before
\* _MotorCommand and _queueCommand are called.
steppingStyle(style) ==
    /\ styleCalls' = styleCalls \cup {SteppingStyleCmd(style)}
    /\ UNCHANGED <<motorVars, prevVars, eventVars, loopVars, waiterVars, queueVars,
                   running, historyVars, stepperCalls, lastRestPosition,
                   reportVars, observer, stepperFails, lifecycleVars,
                   construction, chronosVars, blindVars>>

SetSteppingStyle == \E style \in SteppingStyles : steppingStyle(style)

StyleCommands == {MoveToCmd(MaxPos), MoveByCmd(-1)}

StyleEnqueue == \E cmd \in StyleCommands : _queueCommand(cmd)

NextStyle ==
    \/ start
    \/ SetSteppingStyle
    \/ StyleEnqueue
    \/ Loop

SpecStyle == Init /\ [][NextStyle]_vars

(***************************************************************************)
(* The moveTo-then-wait scenario: one caller thread starts the controller, *)
(* issues moveTo(ScenarioPosition) and then calls wait(), once.            *)
(***************************************************************************)
ScenarioMoveTo ==
    /\ running
    /\ enqueued = <<>>
    /\ _queueCommand(MoveToCmd(ScenarioPosition))

ScenarioWait ==
    /\ enqueued # <<>>
    /\ waiterPc = "idle"
    /\ WaitClear

\* The loop: with a single command, none is ever pending while moving.
ScenarioLoop ==
    \/ LoopEntry
    \/ LoopIdleCommand
    \/ LoopIdleTimeout
    \/ LoopMovingNoCommand
    \/ LoopIncrement
    \/ LoopEdge
    \/ LoopAwaitWaiter
    \/ LoopSteadyState
    \/ LoopMotionComplete

NextScenario ==
    \/ start
    \/ ScenarioMoveTo
    \/ ScenarioWait
    \/ WaitMotionComplete
    \/ WaitRead
    \/ WaitReturn
    \/ ScenarioLoop

SpecScenario == Init /\ [][NextScenario]_vars

(***************************************************************************)
(* wait()                                                                  *)
(***************************************************************************)
\* The loop thread waits for the waiter on _waitCompleteEvent while the
\* waiter waits for the loop thread on _motionCompleteEvent.
WaitDeadlock ==
    /\ loopPc = "awaitWaiter"
    /\ ~waitCompleteEvent
    /\ waiterPc = "waiting"
    /\ ~motionCompleteEvent

\* C1: in the scenario (start, moveTo(ScenarioPosition), then wait()), the
\* value wait() returns is ScenarioPosition under every interleaving of the
\* caller with the loop thread.
C1_WaitReturnsScenarioPosition ==
    waiterPc = "returned" => pos = ScenarioPosition

\* C2: every wait() call made while the loop is running eventually returns:
\* the waiter and the loop thread never block on each other forever.
C2_WaitReturns ==
    (waiterPc = "waiting" /\ loopPc # "off") ~> (waiterPc = "returned")

\* C3: the value wait() returns is the position at which current == target
\* was most recently true at the moment wait() returns.
C3_WaitReturnsLatestRest ==
    [][(waiterPc = "signal" /\ waiterPc' = "returned")
          => pos' = lastRestPosition']_vars

(***************************************************************************)
(* The commands                                                            *)
(***************************************************************************)
\* The step in which the loop thread takes cmd from the queue and executes it.
ExecutingCommand(cmd) ==
    /\ loopPc = "top"
    /\ commandQueue # <<>>
    /\ Head(commandQueue) = cmd
    /\ executed' = Append(executed, cmd)

\* n forward steps in the given style.
ForwardSteps(n, style) == [i \in 1 .. n |-> OneStep(FORWARD, style)]

\* C4: from position 0, not reversed, after moveTo(p) with p > 0 and no other
\* command, the stepper has received one forward step per unit moved, nothing
\* else, and once the loop has found current == target exactly p forward steps
\* followed by one release().
C4_MoveToStepsForwardThenRelease ==
    \A p \in 1 .. MaxPos :
        (enqueued = <<MoveToCmd(p)>> /\ executed = enqueued)
            => /\ motorPosition \in 0 .. p
               /\ stepperCalls =
                      ForwardSteps(motorPosition, motorSteppingStyle)
                          \o (IF motorPosition = p /\ ~moving
                              THEN <<Release>> ELSE <<>>)

C4_Witness ==
    /\ enqueued = <<MoveToCmd(MaxPos)>>
    /\ executed = enqueued
    /\ motorPosition = MaxPos
    /\ loopPc = "top"
    /\ ~moving
    /\ Len(stepperCalls) = MaxPos + 1

\* C5: every command enqueued while the loop is running is executed exactly
\* once, by the loop thread, in the order of enqueueing: the commands executed
\* followed by the commands pending are the commands enqueued, only a step of
\* the loop thread executes a command, and every enqueued command is
\* eventually executed.
C5_ExecutedOnceInOrder ==
    /\ [](enqueued = executed \o commandQueue)
    /\ [][executed' # executed
             => /\ loopPc = "top"
                /\ executed' = Append(executed, Head(commandQueue))
                /\ commandQueue' = Tail(commandQueue)]_vars
    /\ \A i \in 1 .. MaxCmds :
           (loopPc # "off" /\ Len(enqueued) >= i) ~> (Len(executed) >= i)

\* The part of C5 that holds of the code: order, no loss, no duplication.
C5_InOrder ==
    /\ [](enqueued = executed \o commandQueue)
    /\ [][executed' # executed
             => /\ loopPc = "top"
                /\ executed' = Append(executed, Head(commandQueue))
                /\ commandQueue' = Tail(commandQueue)]_vars
    /\ \A i \in 1 .. MaxCmds :
           (loopPc # "off" /\ Len(enqueued) >= i)
               ~> (Len(executed) >= i \/ WaitDeadlock)

\* The sum of the steps of the commands seq[i], ..., seq[j].
RECURSIVE SumSteps(_, _, _)
SumSteps(seq, i, j) ==
    IF i > j THEN 0 ELSE seq[i].n + SumSteps(seq, i + 1, j)

\* C6: after any run of executed moveBy commands the target is the target
\* before the run plus the sum of their steps, whatever motion increments
\* happened in between; the target changes only by executing commands.
C6_MoveBySum ==
    /\ targetMotorPosition = targetHistory[Len(targetHistory)]
    /\ \A i \in 0 .. Len(executed) : \A j \in i .. Len(executed) :
           (\A k \in (i + 1) .. j : executed[k].op = "moveBy")
               => targetHistory[j + 1]
                      = targetHistory[i + 1] + SumSteps(executed, i + 1, j)

C6_Witness ==
    /\ executed = <<MoveToCmd(MaxPos), MoveByCmd(-1), MoveByCmd(-1)>>
    /\ positionHistory[2] # positionHistory[3]
    /\ targetMotorPosition = MaxPos - 2
    /\ motorPosition = targetMotorPosition
    /\ ~moving

\* C7: executing moveTo(p) sets target = p whatever target and current were,
\* and leaves current, the marked positions, the stepping style and the
\* reversal flag unchanged.
C7_MoveToSetsTarget ==
    [][\A p \in StepArgs :
          ExecutingCommand(MoveToCmd(p))
              => /\ targetMotorPosition' = p
                 /\ UNCHANGED <<motorPosition, markedPositions,
                                motorSteppingStyle, motorMotionReversed>>]_vars

C7_Witness ==
    /\ loopPc = "increment"
    /\ command.op = "moveTo"
    /\ targetMotorPosition = command.n
    /\ targetHistory[Len(targetHistory) - 1] # command.n
    /\ targetHistory[Len(targetHistory) - 1] # motorPosition
    /\ markedPositions # <<>>

\* C8: executing halt sets target to the value current has at that instant;
\* when halt is executed while moving, the controller is idle after the
\* motion increment of that iteration, and the edge from moving to not moving
\* is taken in that same iteration.
C8_HaltStopsInPlace ==
    /\ [](\A k \in 1 .. Len(executed) :
             executed[k] = HaltCmd => targetHistory[k + 1] = positionHistory[k])
    /\ [][/\ ExecutingCommand(HaltCmd)
             => /\ targetMotorPosition' = motorPosition
                /\ motorPosition' = motorPosition
          /\ (loopPc = "increment" /\ loopPc' # loopPc /\ command = HaltCmd)
             => /\ motorPosition' = targetMotorPosition'
                /\ Len(stepperCalls') <= Len(stepperCalls) + 1
                /\ loopPc' = "report"
          /\ (loopPc = "report" /\ loopPc' # loopPc /\ command = HaltCmd
                 /\ prevMoving)
             => /\ ~moving'
                /\ loopPc' = "awaitWaiter"]_vars

C8_Witness ==
    /\ executed = <<MoveToCmd(MaxPos), HaltCmd>>
    /\ command = HaltCmd
    /\ loopPc = "awaitWaiter"
    /\ motorPosition > 0
    /\ motorPosition < MaxPos
    /\ motorPosition = targetMotorPosition

\* C9: a goto(L) executed after a mark(L), with no mark(L) in between, sets
\* the target to the position the motor had when mark(L) was executed, even if
\* the position has changed since; executing mark changes neither target nor
\* current; a marked position is changed only by executing mark of its label
\* and is never removed.
C9_GotoMarkedPosition ==
    /\ [](\A i \in 1 .. Len(executed) : \A j \in (i + 1) .. Len(executed) :
             \A l \in Labels :
                 (/\ executed[i] = MarkCmd(l)
                  /\ executed[j] = GotoCmd(l)
                  /\ \A k \in (i + 1) .. (j - 1) : executed[k] # MarkCmd(l))
                     => targetHistory[j + 1] = positionHistory[i])
    /\ [][\A l \in Labels :
             /\ ExecutingCommand(MarkCmd(l))
                => /\ l \in DOMAIN markedPositions'
                   /\ markedPositions'[l] = motorPosition
                   /\ UNCHANGED <<targetMotorPosition, motorPosition>>
             /\ l \in DOMAIN markedPositions
                => /\ l \in DOMAIN markedPositions'
                   /\ markedPositions'[l] # markedPositions[l]
                      => ExecutingCommand(MarkCmd(l))
             /\ (l \notin DOMAIN markedPositions /\ l \in DOMAIN markedPositions')
                => ExecutingCommand(MarkCmd(l))]_vars

C9_Witness ==
    \E l \in Labels :
        /\ Len(executed) = 3
        /\ executed[1] = MarkCmd(l)
        /\ executed[3] = GotoCmd(l)
        /\ positionHistory[3] # positionHistory[1]
        /\ targetMotorPosition = positionHistory[1]
        /\ motorPosition # targetMotorPosition

\* C10: executing goto(L) for a label that is not marked leaves target,
\* current and the marked positions unchanged, steps nothing, and the loop
\* goes on with its iteration: it never terminates because of a command.
C10_GotoUnmarkedIsHarmless ==
    /\ [](loopPc # "crashed")
    /\ [][\A l \in Labels :
             (ExecutingCommand(GotoCmd(l)) /\ l \notin DOMAIN markedPositions)
                 => /\ UNCHANGED <<targetMotorPosition, motorPosition,
                                   markedPositions, stepperCalls, moving>>
                    /\ loopPc' = IF moving THEN "increment" ELSE "report"]_vars

C10_Witness ==
    \E l \in Labels :
        /\ Len(executed) = 3
        /\ executed[1] = MoveToCmd(MaxPos)
        /\ executed[2] = GotoCmd(l)
        /\ executed[3] = MarkCmd(l)
        /\ l \in DOMAIN markedPositions
        /\ targetMotorPosition = MaxPos

(***************************************************************************)
(* Failures                                                                *)
(***************************************************************************)
\* The action of cmd raises in the current state.
Raises(cmd) == execute(cmd, MotorState).raised

MovingToIdle ==
    loopPc = "report" /\ prevMoving /\ motorPosition = targetMotorPosition

\* The iteration is at line 591 and has got a target away from its position.
IdleToMoving ==
    loopPc = "report" /\ ~prevMoving /\ motorPosition # targetMotorPosition

\* The iteration is at line 591 with a pending interval.
IntervalChange ==
    /\ loopPc = "report"
    /\ \/ targetIdlingReportInterval # idlingReportInterval
       \/ targetMotionReportInterval # motionReportInterval

\* The timer that self._countdownTimer refers to.
ActiveTimer ==
    IF countdownTimer = "idling" THEN idlingReportCountdownTimer
    ELSE motionReportCountdownTimer

\* The iteration is at line 591, on no edge, and the active timer has expired.
ExpiredTick ==
    /\ loopPc = "report"
    /\ ~MovingToIdle
    /\ ~IdleToMoving
    /\ ~IntervalChange
    /\ TimerHasExpired(ActiveTimer)

\* The number of observer invocations of the step.
ReportsMade ==
    (LastReportNo(reports') - LastReportNo(reports) + MaxReports + 1)
        % (MaxReports + 1)

\* The step is the rest of the iteration that is at line 591.
ReportStep == loopPc = "report" /\ loopPc' # loopPc

\* The last observer invocation of the step had the arguments (target, current).
LastReportIs(raised) ==
    /\ reports' # <<>>
    /\ reports'[Len(reports')].target = targetMotorPosition
    /\ reports'[Len(reports')].actual = motorPosition
    /\ reports'[Len(reports')].raised = raised

\* C12: when the observer raises on a report, the error does not reach the
\* loop: the loop never terminates, the iteration of the report restarts the
\* timer, on the edge releases the motor and selects the idle timer, changes
\* neither the positions nor the intervals and goes on to set the
\* motion-complete signal; and on every later report occasion, after an
\* invocation that raised, the observer is invoked again.
C12_ObserverErrorIsContained ==
    /\ [](loopPc # "crashed")
    /\ [][(ReportStep /\ observer = RaisingCallback /\ (MovingToIdle \/ ExpiredTick))
             => /\ ReportsMade = 1
                /\ LastReportIs(TRUE)
                /\ UNCHANGED <<motorVars, intervalVars>>
                /\ ActiveTimer'.running
                /\ ~TimerHasExpired(ActiveTimer')
                /\ MovingToIdle
                      => /\ stepperCalls' = Append(stepperCalls, Release)
                         /\ countdownTimer' = "idling"
                         /\ loopPc' = "awaitWaiter"
                /\ ~MovingToIdle => loopPc' = "top"]_vars
    /\ [][(loopPc = "complete" /\ loopPc' # loopPc)
             => motionCompleteEvent' /\ loopPc' = "top"]_vars
    /\ [][(/\ ReportStep
           /\ observer # NoObserver
           /\ \E i \in 1 .. Len(reports) : reports[i].raised
           /\ (MovingToIdle \/ ExpiredTick))
             => ReportsMade = 1]_vars

\* The observer raised on two reports, the later one at rest at MaxPos; the
\* loop is at the top of its next iteration.
C12_Witness ==
    /\ Len(reports) = 2
    /\ reports[1].raised
    /\ reports[2].raised
    /\ reports[2].target = MaxPos
    /\ reports[2].actual = MaxPos
    /\ motorPosition = MaxPos
    /\ motionCompleteEvent
    /\ idlingReportCountdownTimer.running
    /\ ~idlingReportCountdownTimer.expired
    /\ loopPc = "top"

\* C13: when onestep() raises during a motion increment, the motor is
\* released first, the error is caught and the loop goes on with its
\* iteration; the loop thread never terminates.
C13_StepFailureIsContained ==
    /\ [](loopPc # "crashed")
    /\ [][(/\ loopPc = "increment"
           /\ loopPc' # loopPc
           /\ stepperFails
           /\ motorPosition # targetMotorPosition)
             => /\ stepperCalls' # <<>>
                /\ stepperCalls'[Len(stepperCalls')] = Release
                /\ loopPc' = "report"]_vars

\* The running loop is idle at the top of an iteration, no command is
\* pending and an observer is registered.
IdleRunning ==
    /\ running
    /\ loopPc = "top"
    /\ ~moving
    /\ commandQueue = <<>>
    /\ observer # NoObserver

\* C14: from every state in which the running loop is idle with an observer
\* and no pending command, the state right after start() included, a report
\* is eventually emitted unless a command arrives.
C14_IdleReports ==
    \A n \in 0 .. (MaxReports + 1) :
        (IdleRunning /\ LastReportNo(reports) = n)
            ~> (LastReportNo(reports) # n \/ commandQueue # <<>>)

\* The same from the idle states in which the stopwatch of the idle-report
\* timer runs: the states after the first motion has ended.
C14_IdleReportsAfterMotion ==
    \A n \in 0 .. (MaxReports + 1) :
        (IdleRunning /\ idlingReportCountdownTimer.running
                     /\ LastReportNo(reports) = n)
            ~> (LastReportNo(reports) # n \/ commandQueue # <<>>)

\* C15: at the end of every iteration the active timer is one of the two
\* report timers, the motion-report timer if and only if the position
\* differs from the target; the iteration of the Idle-to-Moving edge restarts
\* the motion-report timer and selects it, its period is the motion-report
\* interval.
C15_ActiveTimerFollowsMotion ==
    /\ [](countdownTimer \in {"idling", "motion"})
    /\ [][(loopPc \in {"report", "complete"} /\ loopPc' = "top")
             => (countdownTimer' = "motion"
                    <=> motorPosition' # targetMotorPosition')]_vars
    /\ [](loopPc \in {"top", "increment", "awaitWaiter", "steady", "complete"}
             => (countdownTimer = "motion" <=> moving))
    /\ [][(ReportStep /\ IdleToMoving)
             => /\ countdownTimer' = "motion"
                /\ motionReportCountdownTimer'.running
                /\ ~TimerHasExpired(motionReportCountdownTimer')
                /\ motionReportCountdownTimer'.period = motionReportInterval
                /\ loopPc' = "top"]_vars

\* The loop has ended the iteration of the Idle-to-Moving edge: no step has
\* been made yet.
C15_Witness ==
    /\ loopPc = "top"
    /\ prevMoving
    /\ motorPosition = 0
    /\ targetMotorPosition = MaxPos
    /\ stepperCalls = <<>>
    /\ countdownTimer = "motion"
    /\ motionReportCountdownTimer.running
    /\ ~motionReportCountdownTimer.expired
    /\ ~idlingReportCountdownTimer.running

\* C16: the iteration of every Moving-to-Idle edge invokes the observer, if
\* there is one, exactly once, with target and current equal, releases the
\* motor, restarts the idle-report timer and selects it, all with the
\* motion-complete signal still clear; the signal is set only at the end of
\* that iteration, after the last steady-state position has been set to the
\* current position.
C16_MotionEnd ==
    /\ [][(ReportStep /\ MovingToIdle)
             => /\ observer # NoObserver
                      => /\ ReportsMade = 1
                         /\ LastReportIs(observer = RaisingCallback)
                         /\ reports'[Len(reports')].target
                                = reports'[Len(reports')].actual
                /\ observer = NoObserver => ReportsMade = 0
                /\ stepperCalls' = Append(stepperCalls, Release)
                /\ idlingReportCountdownTimer'.running
                /\ ~TimerHasExpired(idlingReportCountdownTimer')
                /\ countdownTimer' = "idling"
                /\ ~motionCompleteEvent'
                /\ loopPc' = "awaitWaiter"]_vars
    /\ [](loopPc \in {"awaitWaiter", "steady", "complete"}
             => /\ ~motionCompleteEvent
                /\ countdownTimer = "idling"
                /\ stepperCalls # <<>>
                /\ stepperCalls[Len(stepperCalls)] = Release)
    /\ [][(~motionCompleteEvent /\ motionCompleteEvent')
             => /\ loopPc = "complete"
                /\ lastSteadyStatePosition = motorPosition
                /\ UNCHANGED <<lastSteadyStatePosition, motorPosition>>]_vars

\* A motion to MaxPos has ended: the final report was made, the motor
\* released, the idle timer restarted and selected, the signal set.
C16_Witness ==
    /\ loopPc = "top"
    /\ ~prevMoving
    /\ motionCompleteEvent
    /\ motorPosition = MaxPos
    /\ targetMotorPosition = MaxPos
    /\ lastSteadyStatePosition = MaxPos
    /\ reports # <<>>
    /\ reports[Len(reports)].target = MaxPos
    /\ reports[Len(reports)].actual = MaxPos
    /\ stepperCalls[Len(stepperCalls)] = Release
    /\ countdownTimer = "idling"
    /\ idlingReportCountdownTimer.running
    /\ ~idlingReportCountdownTimer.expired

\* With the loop thread scheduled and no thread in wait(), the iteration of
\* a Moving-to-Idle edge goes on to set the motion-complete signal.
C16_SignalIsSet == MovingToIdle ~> (motionCompleteEvent /\ loopPc = "top")

\* The observer is invoked only by the loop thread, in the rest of an
\* iteration from line 591.
ReportsFromLoopThread == [][reports' # reports => ReportStep]_vars

\* C17 as stated: the observer is invoked with (target, current) on every
\* edge, Idle-to-Moving and Moving-to-Idle, on every expired tick and on
\* every accepted interval change, always from the loop thread.
C17_ReportOnEveryEdge ==
    /\ ReportsFromLoopThread
    /\ [][(/\ ReportStep
           /\ observer # NoObserver
           /\ (IdleToMoving \/ MovingToIdle \/ ExpiredTick \/ IntervalChange))
             => /\ ReportsMade >= 1
                /\ LastReportIs(observer = RaisingCallback)]_vars

\* C17: the observer is invoked with (target, current) on every
\* Moving-to-Idle edge, on every expired tick of the active timer in an
\* iteration that is on no edge, and on every accepted interval change,
\* always from the loop thread; the iteration of an Idle-to-Moving edge
\* invokes it only for an accepted interval change.
C17_ReportOnMotionEndAndTick ==
    /\ ReportsFromLoopThread
    /\ [][(/\ ReportStep
           /\ observer # NoObserver
           /\ (MovingToIdle \/ ExpiredTick \/ IntervalChange))
             => /\ ReportsMade >= 1
                /\ LastReportIs(observer = RaisingCallback)]_vars
    /\ [][(ReportStep /\ IdleToMoving /\ ~IntervalChange)
             => ReportsMade = 0]_vars

\* An observer has been invoked on a tick while the motor moved and on the
\* edge at the end of the motion.
C17_Witness ==
    /\ Len(reports) = 2
    /\ reports[1].target = MaxPos
    /\ reports[1].actual < MaxPos
    /\ reports[2].target = MaxPos
    /\ reports[2].actual = MaxPos
    /\ loopPc = "awaitWaiter"

(***************************************************************************)
(* Configuration commands                                                  *)
(***************************************************************************)
\* C18: once the loop has executed idleUpdateInterval(s), s other than the
\* idle-report interval, and ended that iteration, the idle-report interval
\* and the period of the idle timer are s, the change was reported to the
\* observer and the idle timer was restarted.
C18_IdleIntervalIsSet ==
    (/\ loopPc = "top"
     /\ command = IdleUpdateIntervalCmd(IntervalArg)
     /\ IntervalArg # IdlingReportInterval
     /\ observer # NoObserver)
        => /\ idlingReportInterval = IntervalArg
           /\ idlingReportCountdownTimer.period = IntervalArg
           /\ idlingReportCountdownTimer.running
           /\ reports # <<>>

\* C19: once the loop has executed motionUpdateInterval(s), s other than the
\* motion-report interval, and ended that iteration, the motion-report
\* interval and the period of the motion timer are s, the change was
\* reported to the observer and the motion timer was restarted.
C19_MotionIntervalIsSet ==
    (/\ loopPc = "top"
     /\ command = MotionUpdateIntervalCmd(IntervalArg)
     /\ IntervalArg # MotionReportInterval
     /\ observer # NoObserver)
        => /\ motionReportInterval = IntervalArg
           /\ motionReportCountdownTimer.period = IntervalArg
           /\ motionReportCountdownTimer.running
           /\ reports # <<>>

\* C20: every call of steppingStyle(s) enqueues its command, and every
\* motion increment steps the motor in the style that the last executed
\* steppingStyle command has set.
C20_SteppingStyleIsApplied ==
    /\ [](\A style \in SteppingStyles :
             SteppingStyleCmd(style) \in styleCalls
                 => \E i \in 1 .. Len(enqueued) : enqueued[i] = SteppingStyleCmd(style))
    /\ [][\A cmd \in {SteppingStyleCmd(style) : style \in SteppingStyles} :
             ExecutingCommand(cmd) => motorSteppingStyle' = cmd.label]_vars
    /\ [][(loopPc = "increment" /\ stepperCalls' # stepperCalls)
             => stepperCalls'[Len(stepperCalls')].style = motorSteppingStyle]_vars

(***************************************************************************)
(* Motion increments                                                       *)
(***************************************************************************)
\* The step is a motion increment with steps remaining.
IncrementStep ==
    /\ loopPc = "increment"
    /\ loopPc' # loopPc
    /\ targetMotorPosition # motorPosition

\* The distance between the position and the target.
Distance(position, target) ==
    IF target >= position THEN target - position ELSE position - target

\* C21: a motion increment with remaining = target - current other than 0
\* steps the motor BACKWARD if and only if exactly one of remaining < 0 and
\* the reversal flag holds, and adds +1 to the position if remaining > 0 and
\* -1 if remaining < 0, whatever the flag: the position gets one nearer to
\* the target. Executing reverseMotion changes the flag only.
C21_DirectionAndDelta ==
    /\ [][IncrementStep
             => LET remaining == targetMotorPosition - motorPosition
                    backward == (remaining < 0) # motorMotionReversed
                IN  /\ stepperCalls' =
                           Append(stepperCalls,
                                  OneStep(IF backward THEN BACKWARD ELSE FORWARD,
                                          motorSteppingStyle))
                    /\ motorPosition' =
                           motorPosition + (IF remaining > 0 THEN 1 ELSE -1)
                    /\ Distance(motorPosition', targetMotorPosition')
                           = Distance(motorPosition, targetMotorPosition) - 1]_vars
    /\ [][\A flag \in BOOLEAN :
             ExecutingCommand(ReverseMotionCmd(flag))
                 => /\ motorMotionReversed' = flag
                    /\ UNCHANGED <<motorPosition, targetMotorPosition,
                                   markedPositions, motorSteppingStyle,
                                   stepperCalls>>]_vars

\* With the motion reversed, the motor has been stepped BACKWARD and the
\* position has gone up towards the target MaxPos.
C21_Witness ==
    /\ motorMotionReversed
    /\ targetMotorPosition = MaxPos
    /\ motorPosition = 1
    /\ stepperCalls = <<OneStep(BACKWARD, DOUBLE)>>
    /\ loopPc = "report"

\* The step is the motion increment that brings the position to the target.
TerminalStep ==
    /\ loopPc = "increment"
    /\ loopPc' # loopPc
    /\ Distance(motorPosition, targetMotorPosition) = 1

\* C27: the motion increment whose step brings the position to the target
\* calls release() on the motor within the increment, after the step, also
\* when the step raises.
C27_TerminalStepReleases ==
    [][TerminalStep
          => /\ Len(stepperCalls') = Len(stepperCalls) + 2
             /\ stepperCalls'[Len(stepperCalls') - 1].call = "onestep"
             /\ stepperCalls'[Len(stepperCalls')] = Release]_vars

(***************************************************************************)
(* Blocking                                                                *)
(***************************************************************************)
\* C28: the loop thread blocks only in the dequeue while idle: in no
\* reachable state is it blocked waiting on a caller thread.
C28_LoopWaitsOnNoCaller ==
    ~(loopPc = "awaitWaiter" /\ ~waitCompleteEvent)

(***************************************************************************)
(* Iterations                                                              *)
(***************************************************************************)
\* C29: an iteration executes at most one command, at its start; one that
\* begins moving then performs exactly one motion increment, which changes
\* the position by +1 or -1 with one step of the motor, or by 0 with no
\* step, and by 0 only when the command of the iteration has made the
\* target equal to the position; one that begins idle performs no increment
\* and makes no call on the motor. The position changes in increments only.
C29_OneCommandOneIncrement ==
    /\ [][executed' # executed
             => /\ loopPc = "top"
                /\ Len(executed') = Len(executed) + 1
                /\ loopPc' = IF moving THEN "increment" ELSE "report"]_vars
    /\ [][(loopPc = "top" /\ loopPc' # loopPc)
             => loopPc' = IF moving THEN "increment" ELSE "report"]_vars
    /\ [][(loopPc = "increment" /\ loopPc' # loopPc)
             => /\ loopPc' = "report"
                /\ moving
                /\ UNCHANGED executed
                /\ motorPosition' - motorPosition \in {-1, 0, 1}
                /\ Len(stepperCalls') - Len(stepperCalls)
                       = Distance(motorPosition', motorPosition)
                /\ motorPosition' = motorPosition
                       <=> targetMotorPosition = motorPosition
                /\ motorPosition' = motorPosition
                       => /\ command # NoCmd
                          /\ executed # <<>>
                          /\ executed[Len(executed)] = command]_vars
    /\ [][(loopPc \in {"top", "report"} /\ ~moving)
             => UNCHANGED <<stepperCalls, motorPosition>>]_vars
    /\ [][motorPosition' # motorPosition => loopPc = "increment"]_vars

\* An iteration that began moving has executed halt after one step and has
\* performed an increment of 0.
C29_Witness ==
    /\ loopPc = "report"
    /\ moving
    /\ command = HaltCmd
    /\ motorPosition = 1
    /\ targetMotorPosition = 1
    /\ Len(stepperCalls) = 1

\* C30: an increment of an iteration that has executed no command brings
\* the position one nearer to the target, and without the execution of a
\* command the distance never grows; so the running loop eventually is idle
\* for good with the position at the last target set.
C30_ReachesTarget ==
    /\ [][(loopPc = "increment" /\ loopPc' # loopPc /\ command = NoCmd)
             => /\ Distance(motorPosition, targetMotorPosition) >= 1
                /\ Distance(motorPosition', targetMotorPosition')
                       = Distance(motorPosition, targetMotorPosition) - 1]_vars
    /\ [][executed' = executed
             => /\ targetMotorPosition' = targetMotorPosition
                /\ Distance(motorPosition', targetMotorPosition')
                       <= Distance(motorPosition, targetMotorPosition)]_vars
    /\ [](running => <>[](/\ motorPosition = targetMotorPosition
                          /\ targetMotorPosition = targetHistory[Len(targetHistory)]
                          /\ ~moving))

\* A motion of MaxPos steps without a further command has ended.
C30_Witness ==
    /\ executed = <<MoveToCmd(MaxPos)>>
    /\ commandQueue = <<>>
    /\ Len(stepperCalls) = MaxPos + 1
    /\ motorPosition = MaxPos
    /\ targetMotorPosition = MaxPos
    /\ ~moving
    /\ loopPc = "top"

(***************************************************************************)
(* The life cycle: one thread starts and stops the controller, a caller    *)
(* registers an observer and issues motions.                               *)
(*                                                                         *)
(* The loop reads self._looping at the top of an iteration and nowhere     *)
(* else, and the dequeue that follows the test does not read it: a stop    *)
(* that clears it between the test and the dequeue is the stop that clears *)
(* it after the dequeue, so the test and the dequeue are one step.         *)
(***************************************************************************)
\* What the model leaves alone in a call of the life cycle.
controllerVars == <<motorVars, prevVars, eventVars, waiterVars, queueVars,
                    historyVars, stepperCalls, lastRestPosition, reportVars,
                    observer, styleCalls, stepperFails, construction,
                    chronosVars, blindVars>>

\* self._future.done(): the task of the pool has returned or raised.
FutureDone_unchecked == TRUE

FutureDone == loopPc \in {"exited", "crashed"}

\* _eventLoop, line 560: `while self._looping' fails, the loop logs and
\* returns 0; it makes no call on the motor.
LoopExit ==
    /\ loopPc = "top"
    /\ ~looping
    /\ loopPc' = "exited"
    /\ UNCHANGED <<motorVars, prevVars, eventVars, prevMoving, moving, command,
                   waiterVars, queueVars, running, historyVars, stepperCalls,
                   lastRestPosition, reportVars, callerVars>>

\* start() on a controller that is running: raises NotImplementedError.
startRaises ==
    /\ ownerPc = "idle"
    /\ looper = "pool"
    /\ running
    /\ lastCall' = Outcome("start", "raised")
    /\ UNCHANGED <<controllerVars, loopVars, running, looping, future, ownerPc,
                   looper, other>>

\* stop() on a controller that is running: clears _running and _looping and
\* enters the poll of _stop().
stop ==
    /\ ownerPc = "idle"
    /\ looper = "pool"
    /\ running
    /\ running' = FALSE
    /\ looping' = FALSE
    /\ ownerPc' = "stop"
    /\ UNCHANGED <<controllerVars, loopVars, future, lastCall, looper, other>>

\* stop() on a controller that is not running: raises NotImplementedError.
stopRaises ==
    /\ ownerPc = "idle"
    /\ looper = "pool"
    /\ ~running
    /\ lastCall' = Outcome("stop", "raised")
    /\ UNCHANGED <<controllerVars, loopVars, running, looping, future, ownerPc,
                   looper, other>>

\* _stop(), the poll `while (not self._future.done())' of stop(): ends when
\* the task is done; on no future, .done() raises AttributeError.
stopReturns ==
    /\ ownerPc = "stop"
    /\ looper = "pool"
    /\ IF future = "None"
           THEN lastCall' = Outcome("stop", "raised")
           ELSE /\ FutureDone
                /\ lastCall' = Outcome("stop", "returned")
    /\ ownerPc' = "idle"
    /\ UNCHANGED <<controllerVars, loopVars, running, looping, future, looper,
                   other>>

\* tryStart(): on a controller that is not running submits the loop, sets
\* _running and returns True; else returns False.
tryStart_unguarded ==
    /\ ownerPc = "idle"
    /\ looper = "pool"
    /\ loopPc' = "entry"
    /\ future' = "Future"
    /\ running' = TRUE
    /\ lastCall' = Outcome("tryStart", "True")
    /\ UNCHANGED <<controllerVars, prevMoving, moving, command, looping, ownerPc,
                   looper, other>>

tryStart ==
    /\ ownerPc = "idle"
    /\ looper = "pool"
    /\ IF ~running
           THEN /\ loopPc' = "entry"
                /\ future' = "Future"
                /\ running' = TRUE
                /\ lastCall' = Outcome("tryStart", "True")
           ELSE /\ lastCall' = Outcome("tryStart", "False")
                /\ UNCHANGED <<loopPc, future, running>>
    /\ UNCHANGED <<controllerVars, prevMoving, moving, command, looping, ownerPc,
                   looper, other>>

\* tryStop(): on a controller that is running clears _looping and enters the
\* poll of _stop(); else returns False.
tryStop ==
    /\ ownerPc = "idle"
    /\ looper = "pool"
    /\ IF running
           THEN /\ looping' = FALSE
                /\ ownerPc' = "tryStop"
                /\ UNCHANGED lastCall
           ELSE /\ lastCall' = Outcome("tryStop", "False")
                /\ UNCHANGED <<looping, ownerPc>>
    /\ UNCHANGED <<controllerVars, loopVars, running, future, looper, other>>

\* tryStop(), after the poll of _stop(): clears _running and returns True.
tryStopReturns ==
    /\ ownerPc = "tryStop"
    /\ looper = "pool"
    /\ IF future = "None"
           THEN /\ lastCall' = Outcome("tryStop", "raised")
                /\ UNCHANGED running
           ELSE /\ FutureDone
                /\ running' = FALSE
                /\ lastCall' = Outcome("tryStop", "True")
    /\ ownerPc' = "idle"
    /\ UNCHANGED <<controllerVars, loopVars, looping, future, looper, other>>

\* The calls of the life cycle.
Lifecycle ==
    \/ start
    \/ startRaises
    \/ stop
    \/ stopRaises
    \/ stopReturns
    \/ tryStart
    \/ tryStop
    \/ tryStopReturns

\* The commands of the life-cycle specification.
LifecycleCommands == {MoveToCmd(MaxPos), HaltCmd}

LifecycleEnqueue == \E cmd \in LifecycleCommands : _queueCommand(cmd)

NextLifecycle ==
    \/ Lifecycle
    \/ observe(Callback)
    \/ LifecycleEnqueue
    \/ Loop
    \/ LoopExit

SpecLifecycle == Init /\ [][NextLifecycle]_vars

(***************************************************************************)
(* Starting and stopping                                                   *)
(***************************************************************************)
\* The step is the return of a call of the life cycle.
Returns(call) ==
    /\ lastCall' # lastCall
    /\ lastCall'.call = call

\* The step changes nothing but the record of the last call.
NoEffect ==
    UNCHANGED <<controllerVars, loopVars, running, looping, future, ownerPc>>

\* C22: start() on a running controller raises and submits no loop, on a
\* stopped one it submits the loop; stop() on a stopped controller raises and
\* changes nothing; tryStart() and tryStop() never raise, they return False
\* with no effect on a running, respectively a stopped, controller, and True
\* exactly when tryStart() has submitted the loop, respectively tryStop() has
\* waited for the loop to finish.
C22_StartStopMisuse ==
    /\ [][Returns("start")
             => IF running
                    THEN lastCall'.outcome = "raised" /\ NoEffect
                    ELSE /\ lastCall'.outcome = "returned"
                         /\ loopPc' = "entry"
                         /\ running']_vars
    /\ [][(Returns("stop") /\ ownerPc = "idle")
             => /\ ~running
                /\ lastCall'.outcome = "raised"
                /\ NoEffect]_vars
    /\ [](lastCall.call \in {"tryStart", "tryStop"}
             => lastCall.outcome \in {"True", "False"})
    /\ [][Returns("tryStart")
             => IF running
                    THEN lastCall'.outcome = "False" /\ NoEffect
                    ELSE /\ lastCall'.outcome = "True"
                         /\ loopPc' = "entry"
                         /\ running']_vars
    /\ [][Returns("tryStop")
             => IF ownerPc = "idle"
                    THEN /\ ~running
                         /\ lastCall'.outcome = "False"
                         /\ NoEffect
                    ELSE /\ lastCall'.outcome = "True"
                         /\ loopPc \in {"exited", "crashed"}
                         /\ UNCHANGED loopPc
                         /\ ~running']_vars

\* tryStart() has returned False on a running controller whose loop is in a
\* motion.
C22_Witness ==
    /\ lastCall = Outcome("tryStart", "False")
    /\ running
    /\ loopPc = "increment"
    /\ motorPosition # targetMotorPosition

\* The thread of the life cycle has returned from stop() or from a tryStop()
\* that returned True, and has made no call since.
Stopped ==
    /\ ownerPc = "idle"
    /\ lastCall \in {Outcome("stop", "returned"), Outcome("tryStop", "True")}

C24_ExitReleases ==
    (looper = "pool" /\ loopPc = "exited")
        => /\ stepperCalls # <<>>
           /\ stepperCalls[Len(stepperCalls)] = Release

(***************************************************************************)
(* run(): a second thread runs _eventLoop itself, beside the thread that   *)
(* starts and stops the controller. loopVars hold the loop of one of the   *)
(* two threads and `other' the loop of the other one; the steps of Loop    *)
(* are those of the thread in loopVars, and Switch, which is no step of    *)
(* the program, exchanges the two.                                         *)
(***************************************************************************)
\* Where the thread in run() is.
RunPc == IF looper = "run" THEN loopPc ELSE other.loopPc

\* The position is in the body of the loop of _eventLoop.
InLoop(pc) ==
    pc \in {"top", "increment", "report", "awaitWaiter", "steady", "complete"}

Switch ==
    /\ RunPc # "off"
    /\ looper' = IF looper = "pool" THEN "run" ELSE "pool"
    /\ other' = [loopPc |-> loopPc, prevMoving |-> prevMoving, moving |-> moving,
                 command |-> command]
    /\ loopPc' = other.loopPc
    /\ prevMoving' = other.prevMoving
    /\ moving' = other.moving
    /\ command' = other.command
    /\ UNCHANGED <<controllerVars, running, looping, future, ownerPc, lastCall>>

\* run(), line 493: the calling thread enters _eventLoop; run() reads neither
\* _running nor _future.
run ==
    /\ looper = "pool"
    /\ other.loopPc = "off"
    /\ other' = [other EXCEPT !.loopPc = "entry"]
    /\ UNCHANGED <<controllerVars, loopVars, running, looping, future, ownerPc,
                   lastCall, looper>>

\* run(), the finally clause, lines 498-501, after _eventLoop has returned
\* or raised: releases the motor and sets the motion-complete event.
runReturns ==
    /\ looper = "run"
    /\ loopPc \in {"exited", "crashed"}
    /\ stepperCalls' = Append(stepperCalls, Release)
    /\ motionCompleteEvent' = TRUE
    /\ loopPc' = "returned"
    /\ UNCHANGED <<motorVars, prevVars, lastSteadyStatePosition, waitCompleteEvent,
                   prevMoving, moving, command, waiterVars, queueVars, running,
                   historyVars, lastRestPosition, reportVars, callerVars>>

RunEnqueue == _queueCommand(MoveToCmd(MaxPos))

NextRun ==
    \/ Lifecycle
    \/ run
    \/ runReturns
    \/ Switch
    \/ RunEnqueue
    \/ Loop
    \/ LoopExit

SpecRun == Init /\ [][NextRun]_vars

\* C25: at most one thread is in the body of the event loop, whatever the
\* order of the calls of start, tryStart, stop, tryStop and run.
C25_OneLoopThread ==
    ~(InLoop(loopPc) /\ InLoop(other.loopPc))

(***************************************************************************)
(* Construction: AsyncStepperMotor(stepperNo) for a stepper number of      *)
(* StepperNos, then a start and a motion on the controller it returns.     *)
(***************************************************************************)
InitConstruct == \E stepperNo \in StepperNos : InitWith(Pending(stepperNo))

\* AsyncStepperMotor(stepperNo) returns or raises.
Construct ==
    /\ construction.outcome = "pending"
    /\ construction' = Constructed(construction.stepperNo)
    /\ UNCHANGED <<motorVars, prevVars, eventVars, loopVars, waiterVars, queueVars,
                   running, historyVars, stepperCalls, lastRestPosition,
                   reportVars, observer, styleCalls, stepperFails, lifecycleVars,
                   chronosVars, blindVars>>

\* The calls on a controller need the controller.
Use ==
    /\ construction.outcome = "constructed"
    /\ \/ start
       \/ MotionEnqueue
       \/ Loop

NextConstruct ==
    \/ Construct
    \/ Use

SpecConstruct == InitConstruct /\ [][NextConstruct]_vars

\* C26: the construction raises if and only if the stepper number is neither
\* 1 nor 2; after it has raised there is no controller, nothing is started,
\* queued or stepped; with 1 and with 2 it returns a controller that is not
\* running, whose loop is not started and whose queue is empty, with a motor
\* of the kit.
C26_ConstructionChecksStepperNo ==
    /\ [](construction.outcome # "pending"
             => (construction.outcome = "raised"
                    <=> construction.stepperNo \notin {1, 2}))
    /\ [](construction.outcome = "raised"
             => /\ construction.stepperMotor = "None"
                /\ ~running
                /\ loopPc = "off"
                /\ enqueued = <<>>
                /\ stepperCalls = <<>>)
    /\ [][(construction.outcome = "pending" /\ construction'.outcome = "constructed")
             => /\ construction'.stepperMotor # "None"
                /\ ~running'
                /\ loopPc' = "off"
                /\ future' = "None"
                /\ commandQueue' = <<>>
                /\ motorPosition' = 0
                /\ targetMotorPosition' = 0]_vars

\* The construction with a stepper number above 2 has raised.
C26_Witness ==
    /\ construction.outcome = "raised"
    /\ construction.stepperNo > 2

(***************************************************************************)
(* The motor at rest                                                       *)
(***************************************************************************)
\* The loop thread is between two iterations of the loop.
IterationEnd == loopPc = "top"

\* C31: between two iterations, when the position is the target, the motor
\* is released: the last call on the motor, if there is one, is release().
C31_IdleIsReleased ==
    (IterationEnd /\ motorPosition = targetMotorPosition /\ stepperCalls # <<>>)
        => stepperCalls[Len(stepperCalls)] = Release

\* A motion has ended and the loop is at the top of the next iteration.
C31_Witness ==
    /\ IterationEnd
    /\ motorPosition = targetMotorPosition
    /\ motorPosition # 0
    /\ Len(stepperCalls) >= 2
    /\ stepperCalls[Len(stepperCalls)] = Release

(***************************************************************************)
(* Every caller: a command of each kind, the stepping style, wait().       *)
(***************************************************************************)
CallerCommands ==
    {MoveByCmd(-1), MoveToCmd(MaxPos), HaltCmd, MarkCmd("opened"),
     GotoCmd("opened"), ReverseMotionCmd(TRUE),
     IdleUpdateIntervalCmd(IntervalArg), MotionUpdateIntervalCmd(IntervalArg)}

CallerEnqueue == \E cmd \in CallerCommands : _queueCommand(cmd)

NextCallers ==
    \/ start
    \/ CallerEnqueue
    \/ steppingStyle(SINGLE)
    \/ Waiter
    \/ Loop

SpecCallers == Init /\ [][NextCallers]_vars

\* The step is a step of the loop thread.
LoopStep == loopPc' # loopPc /\ loopPc # "off"

\* C32: a step of a caller thread (moveBy, moveTo, halt, mark, goto, the
\* setters of the intervals, of the style and of the reversal, wait) changes
\* none of the position, the target, the marked positions, the stepping
\* style, the reversal flag and the reporting intervals, and adds at most
\* one command at the end of the queue.
C32_CallersOnlyEnqueue ==
    [][~LoopStep
          => /\ UNCHANGED <<motorVars, intervalVars>>
             /\ \/ commandQueue' = commandQueue
                \/ /\ Len(commandQueue') = Len(commandQueue) + 1
                   /\ SubSeq(commandQueue', 1, Len(commandQueue)) = commandQueue]_vars

\* A caller has queued a command while the loop is in a motion.
C32_Witness ==
    /\ loopPc = "increment"
    /\ commandQueue # <<>>
    /\ motorPosition # targetMotorPosition
    /\ waiterPc = "waiting"

(***************************************************************************)
(* Idempotence of the commands                                             *)
(***************************************************************************)
\* A command of each kind, the setter of the stepping style included.
EveryCommand == CallerCommands \cup {SteppingStyleCmd(SINGLE), MotionStepDelayCmd(1)}

\* The state that the execution of a command leaves.
After(cmd, s) == _executeCommandSafely(cmd, s).state

\* The step executes the command that the loop has executed last, with the
\* position as it was then: the same command twice in succession.
ExecutedAgain ==
    /\ executed # <<>>
    /\ executed' = Append(executed, executed[Len(executed)])
    /\ positionHistory[Len(positionHistory)] = motorPosition

\* C33 as stated: the second of two successive executions of the same
\* command changes nothing of the position, the target, the marked
\* positions, the style, the reversal and the intervals, whatever the
\* command.
C33_EveryCommandIdempotent ==
    [][ExecutedAgain => UNCHANGED <<motorVars, intervalVars>>]_vars

\* C33: the second of two successive executions of the same command changes
\* nothing of the controller state unless the command is moveBy, and every
\* command of a kind other than moveBy leaves, executed twice in any state
\* that is reached, the state that it leaves executed once; the second
\* moveBy(n) adds n to the target again.
C33_IdempotentExceptMoveBy ==
    /\ [][ExecutedAgain
             => IF executed[Len(executed)].op = "moveBy"
                    THEN /\ targetMotorPosition' =
                                targetMotorPosition + executed[Len(executed)].n
                         /\ UNCHANGED <<motorPosition, markedPositions,
                                        motorSteppingStyle, motorMotionReversed,
                                        intervalVars>>
                    ELSE UNCHANGED <<motorVars, intervalVars>>]_vars
    /\ [](\A cmd \in EveryCommand :
             cmd.op # "moveBy"
                 => After(cmd, After(cmd, MotorState)) = After(cmd, MotorState))

\* moveTo(MaxPos) has been executed twice in succession, the first time with
\* another target.
C33_Witness ==
    /\ Len(executed) >= 2
    /\ executed[Len(executed)] = MoveToCmd(MaxPos)
    /\ executed[Len(executed) - 1] = MoveToCmd(MaxPos)
    /\ positionHistory[Len(positionHistory)] = positionHistory[Len(positionHistory) - 1]
    /\ targetHistory[Len(targetHistory) - 2] # MaxPos
    /\ targetMotorPosition = MaxPos

(***************************************************************************)
(* A CountdownTimer on its own: restart(), hasExpired() and period() are   *)
(* called in any order while the time passes.                              *)
(***************************************************************************)
\* What a call on the timer leaves alone.
motorControllerVars ==
    <<motorVars, prevVars, eventVars, loopVars, waiterVars, queueVars, running,
      historyVars, stepperCalls, lastRestPosition, reportVars, observer,
      styleCalls, stepperFails, lifecycleVars, construction, blindVars>>

\* time.time() advances.
Tick ==
    /\ now < MaxClock
    /\ now' = now + 1
    /\ UNCHANGED <<theTimer, restartedAt, timerCall, motorControllerVars>>

Restart ==
    /\ theTimer' = restart(theTimer, now)
    /\ restartedAt' = now
    /\ timerCall' = [op |-> "restart", result |-> FALSE]
    /\ UNCHANGED <<now, motorControllerVars>>

HasExpired ==
    /\ LET r == hasExpired(theTimer, now)
       IN  /\ theTimer' = r.self
           /\ timerCall' = [op |-> "hasExpired", result |-> r.result]
    /\ UNCHANGED <<now, restartedAt, motorControllerVars>>

SetPeriod ==
    /\ \E interval \in TimerPeriods : theTimer' = period(theTimer, interval)
    /\ timerCall' = [op |-> "period", result |-> FALSE]
    /\ UNCHANGED <<now, restartedAt, motorControllerVars>>

NextTimer ==
    \/ Tick
    \/ Restart
    \/ HasExpired
    \/ SetPeriod

SpecTimer == Init /\ [][NextTimer]_vars

\* The step is the call `op' on the timer.
TimerStep(op) == timerCall'.op = op /\ now' = now

\* C34: once the timer has been restarted, hasExpired() is true if and only
\* if the time since the last restart() is at least the period the timer has
\* now, so it is false until the period has passed and true from then on,
\* and a new period is compared with the same elapsed time; restart() keeps
\* the period; hasExpired() leaves the timer as it is; period() sets the
\* period and leaves the elapsed time as it is.
C34_CountdownTimer ==
    /\ [](restartedAt # Never
             => (hasExpired(theTimer, now).result
                    <=> now - restartedAt >= theTimer.period))
    /\ [][TimerStep("restart") => theTimer'.period = theTimer.period]_vars
    /\ [][TimerStep("hasExpired")
             => /\ theTimer' = theTimer
                /\ restartedAt # Never
                       => (timerCall'.result
                              <=> now - restartedAt >= theTimer.period)]_vars
    /\ [][TimerStep("period")
             => elapsed(theTimer'.stopwatch, now) = elapsed(theTimer.stopwatch, now)]_vars

\* The period has been changed to 1 and hasExpired() has returned True one
\* unit of time after the restart.
C34_Witness ==
    /\ restartedAt # Never
    /\ timerCall = [op |-> "hasExpired", result |-> TRUE]
    /\ theTimer.period = 1
    /\ now - restartedAt = 1

(***************************************************************************)
(* Restart                                                                 *)
(***************************************************************************)
\* C35: while the controller is running, after the first start as after a
\* start that follows a stop, and no stop is under way, the loop submitted by
\* the start has not left the loop: it goes on executing commands and moving.
C35_RestartedLoopRuns ==
    (running /\ ownerPc = "idle") => loopPc # "exited"

(***************************************************************************)
(* The motion-complete signal                                              *)
(***************************************************************************)
\* C36: between two iterations the motion-complete event is set if and only
\* if the position is the target, and then the last steady-state position is
\* the position; before the loop is started the event is set and the last
\* steady-state position is 0.
C36_MotionCompleteIffAtTarget ==
    /\ IterationEnd
           => /\ motionCompleteEvent <=> (motorPosition = targetMotorPosition)
              /\ motionCompleteEvent => lastSteadyStatePosition = motorPosition
    /\ loopPc = "off"
           => /\ motionCompleteEvent
              /\ lastSteadyStatePosition = 0

\* A motion away from 0 has ended, the event is set again and the last
\* steady-state position is the new position.
C36_Witness ==
    /\ IterationEnd
    /\ motionCompleteEvent
    /\ motorPosition = targetMotorPosition
    /\ motorPosition # 0
    /\ lastSteadyStatePosition = motorPosition


(***************************************************************************)
(* The blind: an MQTTSmartBlind is constructed, which constructs the       *)
(* SmartBlindController and makes it the observer of the motor, and is     *)
(* started; commands arrive from the message bus; time passes. The step    *)
(* size is set to 1 before the blind is wound, and the opened and closed   *)
(* points are set while the motor is at rest.                              *)
(***************************************************************************)
\* MQTTSmartBlind.__init__, lines 111-117: SmartBlindController.__init__ calls
\* observe(self._onMotionUpdate) of the motor, and the blind is observed.
MQTTSmartBlind ==
    /\ observer = NoObserver
    /\ ~running
    /\ observer' = BlindCallback
    /\ blind' = [blind EXCEPT !.observer = Callback]
    /\ UNCHANGED <<motorVars, prevVars, eventVars, loopVars, waiterVars, queueVars,
                   running, historyVars, stepperCalls, lastRestPosition,
                   reportVars, styleCalls, stepperFails, lifecycleVars,
                   construction, chronosVars, events>>

\* MQTTSmartBlind.start, lines 150-152.
BlindStart == observer = BlindCallback /\ start

\* The motor has completed its last motion and the blind has been told.
AtRest ==
    /\ commandQueue = <<>>
    /\ motorPosition = targetMotorPosition
    /\ ~prevMoving
    /\ blind.motorCurrentPosition = motorPosition

\* __onMessage, lines 344-358, and __processMessage, lines 514-522: the
\* command of the message is executed; an exception is caught and logged.
OnMessage(topic, payload) ==
    /\ observer = BlindCallback
    /\ LET r == __executeCommand(blind, topic, payload)
       IN  IF r.commands = <<>>
           THEN /\ blind' = r.self
                /\ UNCHANGED <<motorVars, prevVars, eventVars, loopVars, waiterVars,
                               queueVars, running, historyVars, stepperCalls,
                               lastRestPosition, reportVars, observer, styleCalls,
                               stepperFails, lifecycleVars, construction,
                               chronosVars, events>>
           ELSE _queueCommand(r.commands[1])

\* The messages of the bus.
Messages ==
    {<<"calibrate/set-step-size", 1>>, <<"calibrate/wind", 1>>, <<"calibrate/wind", 2>>,
     <<"calibrate/set-opened", 0>>, <<"calibrate/set-closed", 0>>,
     <<"control/open", 0>>, <<"control/close", 0>>}

Message ==
    \E m \in Messages :
        /\ m[1] = "calibrate/wind" => blind.stepSize = 1
        /\ m[1] \in {"calibrate/set-opened", "calibrate/set-closed"} => AtRest
        /\ OnMessage(m[1], m[2])

NextBlind ==
    \/ MQTTSmartBlind
    \/ BlindStart
    \/ Message
    \/ TimePasses
    \/ Loop

SpecBlind == Init /\ [][NextBlind]_vars

\* Both points of the blind are calibrated, at different positions.
Calibrated ==
    /\ blind.openedPosition # None
    /\ blind.closedPosition # None
    /\ blind.openedPosition # blind.closedPosition


\* The event that the code's comments give a report, from the percentages
\* before it and of it.
Classified(self, report) ==
    LET wasMoving == (self.targetPercentage # self.actualPercentage)
        nowMoving == (report.target # report.actual)
    IN  IF ~wasMoving /\ nowMoving THEN STARTING
        ELSE IF wasMoving /\ ~nowMoving THEN STOPPED
        ELSE MOVING

\* C38: on a calibrated blind, a report of the motor makes exactly one call
\* of the observer of the blind, and it is STARTING if the blind was not
\* moving and is now, STOPPED if it was moving and is not now, MOVING
\* otherwise.
C38_OneEventPerReport ==
    [][(ReportsMade = 1 /\ Calibrated /\ observer = BlindCallback)
           => /\ Len(events') = 1
              /\ events'[1].event = Classified(blind, events'[1])]_vars


\* The step is the report of the iteration that finds a motion completed.
MotionCompletes ==
    /\ loopPc = "report"
    /\ loopPc' # loopPc
    /\ prevMoving
    /\ motorPosition = targetMotorPosition

\* C37: on a calibrated blind, the report of a completed motion of the motor
\* calls the observer of the blind with STOPPED, also when no motion-report
\* timer has expired during the motion.
C37_CompletedMotionStops ==
    [][(MotionCompletes /\ Calibrated /\ observer = BlindCallback)
           => \E i \in DOMAIN events' : events'[i].event = STOPPED]_vars


\* C39: on a calibrated blind the command control/close enqueues a move of
\* the motor to the closed position and control/open a move to the opened
\* position.
C39_CloseMovesToClosed ==
    [][Calibrated
           => /\ OnMessage("control/close", 0)
                    => enqueued' = Append(enqueued, MoveToCmd(blind.closedPosition[1]))
              /\ OnMessage("control/open", 0)
                    => enqueued' = Append(enqueued, MoveToCmd(blind.openedPosition[1]))]_vars


\* C40: the step and release calls of a controller constructed with stepper
\* number 2 go to the second motor of the kit, those of one constructed with
\* stepper number 1 to the first.
C40_SelectorChoosesChannel ==
    (construction.outcome = "constructed" /\ stepperCalls # <<>>)
        => construction.stepperMotor =
               (IF construction.stepperNo = 1 THEN "stepper1" ELSE "stepper2")

=============================================================================
